---------------------------- MODULE Spec2Model ----------------------------
(***************************************************************************)
(* LocalLeaf: the synchronisation engine (src/src/sync/syncEngine.ts) and  *)
(* its connection manager (src/src/api/socketio.ts) as state machines.     *)
(*                                                                         *)
(* Texts are sequences of UTF-16 code units, file contents are sequences   *)
(* of bytes, paths are sequences of tokens in which "/" is a token of its  *)
(* own, so that string concatenation is \o and lastIndexOf('/') and        *)
(* split('/') are computed as the code computes them.                      *)
(***************************************************************************)
EXTENDS Integers, Sequences, FiniteSets, TLC

\* ------------------------------------------------------------------------
\* Bounds of the model
\* ------------------------------------------------------------------------

\* Longest text drawn for the diff/apply round trip.
MaxLen == 2

\* Handlers in flight at the same time.
MaxTasks == 2

\* Actions of the user and of collaborators in one behaviour.
MaxEnvOps == 2

\* Events waiting in the watcher's queue, and in the socket's.
MaxPending == 2

\* How often the clock advances by one debounce delay.
MaxTicks == 1

\* Calls of pullAll in a row.
MaxPulls == 2

\* Calls of reconnect() on one SocketIOAPI.
MaxReconnects == 1

\* Changes of connection scheme the model follows one joinProject() through.
MaxSwitches == 2

\* Calls through the promisified emit in one behaviour.
MaxEmits == 2

\* ------------------------------------------------------------------------
\* Pure functions
\* ------------------------------------------------------------------------

\* The texts of at most n code units, each 'a' or 'b'.
RECURSIVE TextsUpTo(_)
TextsUpTo(n) ==
    IF n = 0 THEN { <<>> }
    ELSE LET shorter == TextsUpTo(n - 1)
         IN  shorter \cup { Append(t, c) : t \in { s \in shorter : Len(s) = n - 1 }, c \in { 97, 98 } }

\* String.prototype.slice(from, to) for non-negative arguments: both ends
\* are clamped to the length, an empty range gives the empty string.
Slice(s, from, to) ==
    LET f == IF from < Len(s) THEN from ELSE Len(s)
        t == IF to < Len(s) THEN to ELSE Len(s)
    IN  IF f >= t THEN <<>> ELSE SubSeq(s, f + 1, t)

\* An OT operation { p, i?, d? }: hasI / hasD say whether the field is defined.
DelOp(pos, txt) == [p |-> pos, hasD |-> TRUE, d |-> txt, hasI |-> FALSE, i |-> <<>>]
InsOp(pos, txt) == [p |-> pos, hasD |-> FALSE, d |-> <<>>, hasI |-> TRUE, i |-> txt]

\* A diff that forgets the delete of the old text.
calculateOpsNoDelete(oldText, newText) ==
    IF oldText # newText /\ Len(newText) > 0 THEN << InsOp(0, newText) >> ELSE <<>>

\* SyncEngine.calculateOps: delete the old text, insert the new one.
calculateOps(oldText, newText) ==
    IF oldText # newText
    THEN (IF Len(oldText) > 0 THEN << DelOp(0, oldText) >> ELSE <<>>)
         \o (IF Len(newText) > 0 THEN << InsOp(0, newText) >> ELSE <<>>)
    ELSE <<>>

\* One turn of the apply loop of handleRemoteFileChanged: the delete, then
\* the insert, of one op.
ApplyOp(content, op) ==
    LET afterD == IF op.hasD
                  THEN Slice(content, 0, op.p) \o Slice(content, op.p + Len(op.d), Len(content))
                  ELSE content
    IN  IF op.hasI
        THEN Slice(afterD, 0, op.p) \o op.i \o Slice(afterD, op.p, Len(afterD))
        ELSE afterD

\* The apply loop: the ops in list order against the running buffer.
RECURSIVE ApplyOps(_, _)
ApplyOps(content, ops) ==
    IF ops = <<>> THEN content
    ELSE ApplyOps(ApplyOp(content, Head(ops)), Tail(ops))

\* ------------------------------------------------------------------------
\* Bytes, texts and the conversions between them
\* ------------------------------------------------------------------------

\* `undefined` where the code has Uint8Array | undefined.
NoBytes == << -1 >>

\* The local filesystem's entry for a directory.
DirEntry == << -2 >>

\* U+FFFD, the replacement character, and its UTF-8 encoding EF BF BD.
ReplacementChar == 65533
ReplacementBytes == << 239, 191, 189 >>

HasPrefix(s, pre) == Len(s) >= Len(pre) /\ SubSeq(s, 1, Len(pre)) = pre

\* new TextDecoder().decode(bytes) after the byte order mark: ASCII bytes
\* are themselves, EF BF BD is U+FFFD, any other byte of 128 or more is
\* malformed input and decodes to U+FFFD (the decoder is not fatal).
RECURSIVE DecodeRest(_)
DecodeRest(bytes) ==
    IF bytes = <<>> THEN <<>>
    ELSE IF HasPrefix(bytes, ReplacementBytes)
         THEN << ReplacementChar >> \o DecodeRest(SubSeq(bytes, 4, Len(bytes)))
         ELSE IF Head(bytes) < 128
              THEN << Head(bytes) >> \o DecodeRest(Tail(bytes))
              ELSE << ReplacementChar >> \o DecodeRest(Tail(bytes))

\* new TextDecoder().decode(bytes): ignoreBOM is false, a leading byte order
\* mark (EF BB BF) is dropped.
Decode(bytes) ==
    IF HasPrefix(bytes, << 239, 187, 191 >>)
    THEN DecodeRest(SubSeq(bytes, 4, Len(bytes)))
    ELSE DecodeRest(bytes)

\* new TextEncoder().encode(text).
RECURSIVE Encode(_)
Encode(text) ==
    IF text = <<>> THEN <<>>
    ELSE (IF Head(text) < 128 THEN << Head(text) >> ELSE ReplacementBytes)
         \o Encode(Tail(text))

\* The 32-bit hash is kept as two 16-bit halves, so that no intermediate
\* value leaves the range of TLC's integers; Half is 2^16.
Half == 65536

\* One turn of the loop, hash = (hash << 5) - hash + chr; hash |= 0, which
\* is 31 * hash + chr modulo 2^32.
RECURSIVE HashFrom(_, _, _)
HashFrom(hi, lo, str) ==
    IF str = <<>>
    THEN IF hi >= 32768 THEN (hi - Half) * Half + lo ELSE hi * Half + lo
    ELSE LET low == 31 * lo + Head(str)
         IN  HashFrom((31 * hi + (low \div Half)) % Half, low % Half, Tail(str))

\* hashContent: -1 for undefined, else the 31-multiplier hash of the decoded
\* text, kept in 32 bits.
hashContent(content) ==
    IF content = NoBytes THEN -1 ELSE HashFrom(0, 0, Decode(content))

\* contentEquals: the same reference (both undefined), else both defined
\* and the same bytes.
contentEqualsNever(a, b) == FALSE
contentEquals(a, b) ==
    IF a = NoBytes /\ b = NoBytes THEN TRUE
    ELSE IF a = NoBytes \/ b = NoBytes THEN FALSE
    ELSE a = b

\* The newline code unit, and lines.join('\n') / text.split('\n').
Newline == 10

RECURSIVE JoinLines(_)
JoinLines(lines) ==
    IF lines = <<>> THEN <<>>
    ELSE IF Len(lines) = 1 THEN Head(lines)
    ELSE Head(lines) \o << Newline >> \o JoinLines(Tail(lines))

RECURSIVE SplitLines(_)
SplitLines(text) ==
    IF \A k \in 1..Len(text) : text[k] # Newline THEN << text >>
    ELSE LET k == CHOOSE j \in 1..Len(text) :
                      text[j] = Newline /\ \A m \in 1..(j - 1) : text[m] # Newline
         IN  << SubSeq(text, 1, k - 1) >> \o SplitLines(SubSeq(text, k + 1, Len(text)))

\* ------------------------------------------------------------------------
\* Maps (Map<K, V>): functions with a growing and shrinking domain
\* ------------------------------------------------------------------------

EmptyMap == [k \in {} |-> <<>>]
Has(m, k) == k \in DOMAIN m
Put(m, k, v) == [x \in (DOMAIN m) \cup {k} |-> IF x = k THEN v ELSE m[x]]
Del(m, k) == [x \in (DOMAIN m) \ {k} |-> m[x]]

\* A sequence without the value v (Map.delete on the insertion order).
RECURSIVE SeqWithout(_, _)
SeqWithout(s, v) ==
    IF s = <<>> THEN <<>>
    ELSE IF Head(s) = v THEN SeqWithout(Tail(s), v)
    ELSE << Head(s) >> \o SeqWithout(Tail(s), v)

SeqRange(s) == { s[k] : k \in 1..Len(s) }

\* Map.set on the insertion order: a key already present keeps its place.
SeqAdd(s, v) == IF v \in SeqRange(s) THEN s ELSE Append(s, v)

\* ------------------------------------------------------------------------
\* Paths
\* ------------------------------------------------------------------------

Sep == "/"

\* path.substring(0, path.lastIndexOf('/') + 1): the path up to its last "/",
\* nothing when it has none.
UpToLastSep(path) ==
    IF \A k \in 1..Len(path) : path[k] # Sep THEN <<>>
    ELSE SubSeq(path, 1, CHOOSE k \in 1..Len(path) :
                             path[k] = Sep /\ \A m \in (k + 1)..Len(path) : path[m] # Sep)

\* The filesystem's name for a path: a trailing "/" does not matter.
FsKey(path) ==
    IF Len(path) > 1 /\ path[Len(path)] = Sep THEN SubSeq(path, 1, Len(path) - 1) ELSE path

\* ------------------------------------------------------------------------
\* The entity tree index
\* ------------------------------------------------------------------------

\* `undefined` where the code has an optional identity.
NoId == "undefined"

\* A FileTreeEntry.
Entry(id, type, name, path, parentId) ==
    [id |-> id, type |-> type, name |-> name, path |-> path, parentId |-> parentId]

\* The index: the keys of Map fileTree in insertion order, the entry objects
\* by identity (both maps hold references to the same objects), and Map
\* fileTreeByPath from path to the object.
EmptyIndex == [tree |-> <<>>, heap |-> EmptyMap, byPath |-> EmptyMap]

\* fileTree.set(entry.id, entry); fileTreeByPath.set(entry.path, entry)
AddEntry(ix, e) ==
    [tree |-> SeqAdd(ix.tree, e.id),
     heap |-> Put(ix.heap, e.id, e),
     byPath |-> Put(ix.byPath, e.path, e.id)]

RECURSIVE AddLeaves(_, _, _, _, _)
AddLeaves(ix, items, type, folderPath, folderId) ==
    IF items = <<>> THEN ix
    ELSE AddLeaves(AddEntry(ix, Entry(Head(items).id, type, Head(items).name,
                                      folderPath \o << Head(items).name >>, folderId)),
                   Tail(items), type, folderPath, folderId)

\* traverse() of buildFileTree: the folder's own entry, its docs, its file
\* refs, then its subfolders in order.
RECURSIVE Traverse(_, _, _, _, _)
RECURSIVE TraverseAll(_, _, _, _)
Traverse(ix, folder, parentPath, parentId, isRoot) ==
    LET folderPath == IF isRoot THEN << Sep >> ELSE parentPath \o << folder.name, Sep >>
        own == IF isRoot
               THEN Entry(folder.id, "folder", "", << Sep >>, NoId)
               ELSE Entry(folder.id, "folder", folder.name, folderPath, parentId)
        withDocs == AddLeaves(AddEntry(ix, own), folder.docs, "doc", folderPath, folder.id)
        withFiles == AddLeaves(withDocs, folder.fileRefs, "file", folderPath, folder.id)
    IN  TraverseAll(withFiles, folder.folders, folderPath, folder.id)

TraverseAll(ix, folders, parentPath, parentId) ==
    IF folders = <<>> THEN ix
    ELSE TraverseAll(Traverse(ix, Head(folders), parentPath, parentId, FALSE),
                     Tail(folders), parentPath, parentId)

\* buildFileTree(project): both maps are cleared, then filled from
\* rootFolder[0].
buildFileTree(project) ==
    IF Len(project.rootFolder) > 0
    THEN Traverse(EmptyIndex, project.rootFolder[1], <<>>, NoId, TRUE)
    ELSE EmptyIndex

\* A folder, a document and a file reference of a project snapshot.
Folder(id, name, docs, fileRefs, folders) ==
    [id |-> id, name |-> name, docs |-> docs, fileRefs |-> fileRefs, folders |-> folders]
Leaf(id, name) == [id |-> id, name |-> name]

\* isTextFile: the names of the model that end in an extension of the
\* allow-list ('.tex', ...); "p.png" does not.
isTextFile(name) == name \in { "a.tex", "b.tex" }

\* ignoreParser.shouldIgnore: the path matches a pattern of the ignore file.
\* Of the defaults, '*.aux' matches by the last name of the path, '.*' and
\* '.*/**' match a hidden name anywhere in it.
shouldIgnore(path) ==
    \/ FsKey(path)[Len(FsKey(path))] = "x.aux"
    \/ \E k \in 1..Len(path) : path[k] = ".h"
shouldSync(path) == ~shouldIgnore(path)

\* DEBOUNCE_DELAY of consts.ts, in milliseconds.
DEBOUNCE_DELAY == 500

\* The delay of the timer in setupEmit, in milliseconds.
EMIT_TIMEOUT == 5000

\* The length a pseudo-identity is cut to (substring(0, 24)).
PSEUDO_ID_LENGTH == 24

\* ------------------------------------------------------------------------
\* State
\* ------------------------------------------------------------------------

VARIABLES
    \* SyncEngine
    fileTree,       \* keys of Map fileTree, in insertion order
    ent,            \* the FileTreeEntry objects, by identity
    fileTreeByPath, \* Map fileTreeByPath: path -> entry object (its identity)
    fileCache,      \* Map fileCache: path -> [hash, timestamp]
    baseContent,    \* Map baseContent: path -> bytes
    syncLock,       \* Set syncLock
    joinedDocs,     \* Set joinedDocs
    status,         \* _status
    engSocket,      \* whether this.socket is defined
    tasks,          \* the handlers in flight, each at one of its awaits
    \* the world around the engine
    now,            \* Date.now()
    fs,             \* the local folder: path -> bytes or DirEntry
    srv,            \* the remote project: identity -> entity
    srvJoined,      \* documents the server has this client subscribed to
    notifQ,         \* socket notifications not yet delivered
    watchQ,         \* watcher events not yet delivered
    budget,         \* actions of the user and of collaborators still to come
    envLog,         \* what the user and the collaborators did, in order
    failed,         \* whether a request to the remote ended in an error
    \* pullAll
    pull,           \* the call of pullAll under way: its position and its locals
    \* SocketIOAPI and connect()
    conn,           \* the SocketIOAPI's fields, its sockets, connect() under way
    \* diff/apply round trip
    otOld,          \* the old text A
    otNew,          \* the new text B
    otOps,          \* calculateOps(A, B)
    otOut,          \* the buffer after the apply loop
    otPc            \* "start" | "diffed" | "applied"

engVars == << fileTree, ent, fileTreeByPath, fileCache, baseContent, syncLock,
              joinedDocs, status, engSocket, tasks >>

envVars == << now, fs, srv, srvJoined, notifQ, watchQ, budget >>

histVars == << envLog, failed >>

otVars == << otOld, otNew, otOps, otOut, otPc >>

\* What the engine's handlers and its surroundings never touch.
asideVars == << otVars, pull, conn >>

vars == << engVars, envVars, histVars, otVars, pull, conn >>

OtIdle ==
    /\ otOld = <<>>
    /\ otNew = <<>>
    /\ otOps = <<>>
    /\ otOut = <<>>
    /\ otPc = "idle"

\* No pullAll was called yet: the conflict fields as declared, the counters
\* of a call at zero.
PullLocals ==
    [pc |-> "idle", call |-> 0, ended |-> "", before |-> "", beforeSkipped |-> 0,
     beforeAll |-> FALSE,
     idx |-> 0, path |-> <<>>,
     conflictResolution |-> "ask", applyToAll |-> FALSE,
     downloadedCount |-> 0, skippedCount |-> 0, conflictCount |-> 0,
     remoteContent |-> NoBytes, exists |-> FALSE, localContent |-> NoBytes,
     resolution |-> "", sent |-> 0, wrote |-> FALSE, asked |-> {}]

\* The fields of a SocketIOAPI as declared (no socket before init() ran),
\* with the position of connect() (cpc) and of joinProject() (jpc), the
\* sockets made so far, what happened since (seen, heard), and whether the
\* subscriptions of setupLocalWatcher are among this.disposables (watcher).
\* The call through the promisified emit: its state (epc), event, the time
\* it was made (eat), whether its timer is still to fire (etimer) and its
\* callback still to be called (ewait), and the calls so far (ecount).
\* this.project (project; empty while undefined), and the list that
\* getProjectEntities will answer with (entities).
ConnLocals ==
    [cpc |-> "new", jpc |-> "idle", result |-> <<>>, snapshot |-> <<>>,
     scheme |-> "v1", socket |-> 0, socks |-> <<>>, handlers |-> <<>>,
     connected |-> FALSE, handshakeComplete |-> FALSE, publicId |-> FALSE,
     projectRecord |-> <<>>, projectRecordPromise |-> "undefined",
     waitOn |-> 0, emitOn |-> 0, switches |-> 0, reconnects |-> 0,
     seen |-> {}, heard |-> {}, heardOn |-> 0, watcher |-> FALSE,
     epc |-> "idle", eevent |-> "", eat |-> 0, etimer |-> FALSE, ewait |-> FALSE,
     ecount |-> 0, project |-> <<>>,
     entities |-> << [path |-> << "a.tex" >>, type |-> "doc"],
                     [path |-> << "d" >>, type |-> "folder"] >>]

\* ------------------------------------------------------------------------
\* Diff/apply round trip (calculateOps, then the apply loop)
\* ------------------------------------------------------------------------

OtDiff ==
    /\ otPc = "start"
    /\ otOps' = calculateOps(otOld, otNew)
    /\ otPc' = "diffed"
    /\ UNCHANGED << otOld, otNew, otOut, engVars, envVars, histVars, pull, conn >>

OtApply ==
    /\ otPc = "diffed"
    /\ otOut' = ApplyOps(otOld, otOps)
    /\ otPc' = "applied"
    /\ UNCHANGED << otOld, otNew, otOps, engVars, envVars, histVars, pull, conn >>

\* Two texts to diff, beside a SyncEngine right after construction with
\* nothing in the workspace, in the project or on the way.
SpecOT ==
    /\ otOld \in TextsUpTo(MaxLen)
    /\ otNew \in TextsUpTo(MaxLen)
    /\ otOps = <<>>
    /\ otOut = <<>>
    /\ otPc = "start"
    /\ fileTree = <<>>
    /\ ent = EmptyMap
    /\ fileTreeByPath = EmptyMap
    /\ fileCache = EmptyMap
    /\ baseContent = EmptyMap
    /\ syncLock = {}
    /\ joinedDocs = {}
    /\ status = "disconnected"
    /\ engSocket = FALSE
    /\ tasks = <<>>
    /\ now = 0
    /\ fs = EmptyMap
    /\ srv = EmptyMap
    /\ srvJoined = {}
    /\ notifQ = <<>>
    /\ watchQ = <<>>
    /\ budget = 0
    /\ envLog = <<>>
    /\ failed = FALSE
    /\ pull = PullLocals
    /\ conn = ConnLocals
    /\ [][OtDiff \/ OtApply]_vars

\* C4: for all texts A and B, applying calculateOps(A, B) to A with the
\* apply loop yields exactly B.
C4_RoundTrip == otPc = "applied" => otOut = otNew

\* A round trip that needed both a delete and an insert.
C4_Witness == otPc = "applied" /\ Len(otOps) = 2 /\ otOut = otNew


\* ------------------------------------------------------------------------
\* The engine's handlers: shared pieces
\* ------------------------------------------------------------------------

\* A lock that never refuses.
acquireLockNoCheck(locks, path) == [ok |-> TRUE, locks |-> locks \cup {path}]

\* acquireLock(path): test and set.
acquireLock(locks, path) ==
    IF path \in locks
    THEN [ok |-> FALSE, locks |-> locks]
    ELSE [ok |-> TRUE, locks |-> locks \cup {path}]

\* A release that forgets the path.
releaseLockKeeps(locks, path) == locks

\* releaseLock(path)
releaseLock(locks, path) == locks \ {path}

CacheEntry(content, time) == [hash |-> hashContent(content), timestamp |-> time]

\* shouldPropagate(action, path, content): the answer, and fileCache after it.
shouldPropagate(cache, path, content, time) ==
    LET newHash == hashContent(content)
        fresh == Put(cache, path, [hash |-> newHash, timestamp |-> time])
    IN  IF Has(cache, path)
        THEN IF cache[path].hash = newHash
             THEN [ok |-> FALSE, cache |-> cache]
             ELSE IF time - cache[path].timestamp < DEBOUNCE_DELAY
                  THEN [ok |-> FALSE, cache |-> fresh]
                  ELSE [ok |-> TRUE, cache |-> fresh]
        ELSE [ok |-> TRUE, cache |-> fresh]

\* A handler suspended at an await: its kind, the await it is at, the path
\* it locked and what it holds in its local variables.
Task(kind, pc, path, id) ==
    [kind |-> kind, pc |-> pc, path |-> path, id |-> id, newPath |-> <<>>,
     name |-> "", parentId |-> NoId, etype |-> "", bytes |-> NoBytes,
     out |-> NoBytes, hasOp |-> FALSE, ops |-> <<>>]

RemoveAt(s, k) == SubSeq(s, 1, k - 1) \o SubSeq(s, k + 1, Len(s))

\* A watcher event and a socket notification.
WatchEvent(kind, path) == [kind |-> kind, path |-> path]
Notif(kind, id, parentId, etype, name, hasOp, ops) ==
    [kind |-> kind, id |-> id, parentId |-> parentId, etype |-> etype,
     name |-> name, hasOp |-> hasOp, ops |-> ops]

\* fileTreeByPath.get(path): the entry object, NoId when there is none.
ByPath(path) == IF Has(fileTreeByPath, path) THEN fileTreeByPath[path] ELSE NoId

\* fileTree.get(id) is defined.
InTree(id) == id \in SeqRange(fileTree)

\* vscode.workspace.fs: what is at a path.
FsHas(path) == Has(fs, FsKey(path))
FsIsDir(path) == FsHas(path) /\ fs[FsKey(path)] = DirEntry
FsIsFile(path) == FsHas(path) /\ fs[FsKey(path)] # DirEntry

\* Paths at or below a path.
Under(key, root) == key = root \/ HasPrefix(key, root \o << Sep >>)

\* fs.writeFile: the file, and the folders above it.
RECURSIVE WithParents(_, _)
WithParents(f, key) ==
    LET up == FsKey(UpToLastSep(key))
    IN  IF Len(up) <= 1 THEN f ELSE WithParents(Put(f, up, DirEntry), up)
FsWriteAlone(f, path, bytes) == Put(EmptyMap, FsKey(path), bytes)
FsWrite(f, path, bytes) == Put(WithParents(f, FsKey(path)), FsKey(path), bytes)

\* fs.delete(uri, { recursive: true })
FsDelete(f, path) == [k \in { x \in DOMAIN f : ~Under(x, FsKey(path)) } |-> f[k]]

\* fs.rename(old, new): the entry and all below it.
FsRename(f, old, new) ==
    LET o == FsKey(old)
        n == FsKey(new)
        kept == { x \in DOMAIN f : ~Under(x, o) }
        moved == { x \in DOMAIN f : Under(x, o) }
        To(x) == n \o SubSeq(x, Len(o) + 1, Len(x))
    IN  [k \in kept \cup { To(x) : x \in moved } |->
            IF k \in kept THEN f[k] ELSE f[CHOOSE x \in moved : To(x) = k]]

\* The watcher's event for a write.
WriteEvent(path) == WatchEvent(IF FsHas(path) THEN "change" ELSE "create", FsKey(path))

\* Room in the watcher's queue for n more events.
WatchRoom(n) == Len(watchQ) + n <= MaxPending
NotifRoom(n) == Len(notifQ) + n <= MaxPending

\* How a request to the remote ends: with a success result, with an error
\* result, or by throwing (a timeout, a closed connection).
Outcomes == { "ok", "error", "throw" }


\* ------------------------------------------------------------------------
\* The remote project, as far as the engine's requests depend on it
\* ------------------------------------------------------------------------

\* Names of the model and the kind of entity each can be; ".h" is a hidden
\* folder, which the default ignore patterns exclude.
Names == { "a.tex", "b.tex", "p.png", "d", "x", ".h" }
TypeOfName(name) ==
    IF name \in { "a.tex", "b.tex" } THEN "doc"
    ELSE IF name = "p.png" THEN "file" ELSE "folder"

\* Identities the remote hands out, in order; an identity is never reused.
IdPool == << "n1", "n2" >>
FreshId(s) ==
    IF \A k \in 1..Len(IdPool) : IdPool[k] \in DOMAIN s THEN NoId
    ELSE IdPool[CHOOSE k \in 1..Len(IdPool) :
                    IdPool[k] \notin DOMAIN s /\ \A m \in 1..(k - 1) : IdPool[m] \in DOMAIN s]

SrvIs(s, id, type) == Has(s, id) /\ s[id].live /\ s[id].type = type
SrvChild(s, parentId, name) ==
    { x \in DOMAIN s : s[x].live /\ s[x].parentId = parentId /\ s[x].name = name }

RECURSIVE SrvUnder(_, _, _)
SrvUnder(s, x, id) ==
    x = id \/ (Has(s, x) /\ Has(s, s[x].parentId) /\ SrvUnder(s, s[x].parentId, id))

SrvCreate(s, id, name, parentId, content) ==
    Put(s, id, [type |-> TypeOfName(name), name |-> name, parentId |-> parentId,
                content |-> content, live |-> TRUE])
SrvRemove(s, id) ==
    [x \in DOMAIN s |-> IF SrvUnder(s, x, id) THEN [s[x] EXCEPT !.live = FALSE] ELSE s[x]]

\* The notifications of the socket.
Created(s, id) == Notif("created", id, s[id].parentId, s[id].type, s[id].name, FALSE, <<>>)
Removed(id) == Notif("removed", id, NoId, "", "", FALSE, <<>>)
Changed(id, hasOp, ops) == Notif("changed", id, NoId, "", "", hasOp, ops)

\* A delete component must name the text it deletes.
RECURSIVE OpsFit(_, _)
OpsFit(text, ops) ==
    IF ops = <<>> THEN TRUE
    ELSE LET op == Head(ops) IN
         /\ op.hasD => Slice(text, op.p, op.p + Len(op.d)) = op.d
         /\ OpsFit(ApplyOp(text, op), Tail(ops))


\* ------------------------------------------------------------------------
\* Local change handlers
\* ------------------------------------------------------------------------

\* project.rootFolder[0]._id of the project the engine is connected to.
ProjectRootId == "r"

\* What joinDoc hands back: each line of the document as the bytes of its
\* UTF-8 form, read again as UTF-8.
joinDocLines(text) == SplitLines(DecodeRest(Encode(text)))

\* The watcher delivers its next event: the synchronous head of
\* handleLocalFileChange, handleLocalFileCreate or handleLocalFileDelete,
\* up to the first await.
DeliverWatch ==
    /\ conn.watcher
    /\ watchQ # <<>>
    /\ Len(tasks) < MaxTasks
    /\ LET e == Head(watchQ)
           lk == acquireLock(syncLock, e.path)
           entry == ByPath(e.path)
       IN  /\ watchQ' = Tail(watchQ)
           /\ IF ~shouldSync(e.path) \/ ~lk.ok \/ (e.kind = "delete" /\ entry = NoId)
              THEN UNCHANGED engVars
              ELSE /\ syncLock' = lk.locks
                   /\ tasks' = Append(tasks,
                        IF e.kind = "change" THEN Task("localChange", "readFile", e.path, NoId)
                        ELSE IF e.kind = "create" THEN Task("localCreate", "stat", e.path, NoId)
                        ELSE [Task("localDelete", "deleteEntity", e.path, entry)
                                 EXCEPT !.etype = ent[entry].type])
                   /\ status' = IF e.kind = "delete" THEN "pushing" ELSE status
                   /\ UNCHANGED << fileTree, ent, fileTreeByPath, fileCache, baseContent,
                                   joinedDocs, engSocket >>
    /\ UNCHANGED << now, fs, srv, srvJoined, notifQ, budget, asideVars, histVars >>

\* handleLocalFileChange after readFile: the debounce, the lookup, and the
\* choice between the OT push and the upload.
LChangeReadFile ==
    \E k \in 1..Len(tasks) :
        LET t == tasks[k] IN
        /\ t.kind = "localChange" /\ t.pc = "readFile"
        /\ IF FsIsFile(t.path)
           THEN LET content == fs[FsKey(t.path)]
                    sp == shouldPropagate(fileCache, t.path, content, now)
                    entry == ByPath(t.path)
                IN  /\ fileCache' = sp.cache
                    /\ IF ~sp.ok \/ entry = NoId
                       THEN /\ tasks' = RemoveAt(tasks, k)
                            /\ syncLock' = releaseLock(syncLock, t.path)
                            /\ UNCHANGED status
                       ELSE /\ status' = "pushing"
                            /\ tasks' = [tasks EXCEPT ![k] =
                                 [t EXCEPT !.pc = IF ent[entry].type = "doc" /\ engSocket
                                                  THEN "joinDoc" ELSE "uploadFile",
                                           !.id = entry, !.bytes = content,
                                           !.name = ent[entry].name,
                                           !.parentId = ent[entry].parentId]]
                            /\ UNCHANGED syncLock
           ELSE /\ tasks' = RemoveAt(tasks, k)
                /\ syncLock' = releaseLock(syncLock, t.path)
                /\ status' = IF FsHas(t.path) THEN "error" ELSE status
                /\ UNCHANGED fileCache
        /\ UNCHANGED << fileTree, ent, fileTreeByPath, baseContent, joinedDocs, engSocket,
                        envVars, asideVars, histVars >>

\* pushDocumentChanges after joinDoc: the diff against the remote text.
LChangeJoinDoc ==
    \E k \in 1..Len(tasks), outcome \in { "ok", "throw" } :
        LET t == tasks[k]
            remoteContent == JoinLines(joinDocLines(srv[t.id].content))
            ops == calculateOps(remoteContent, Decode(t.bytes))
        IN
        /\ t.kind = "localChange" /\ t.pc = "joinDoc"
        /\ outcome = "ok" => (engSocket /\ SrvIs(srv, t.id, "doc"))
        /\ IF outcome = "ok" /\ ops # <<>>
           THEN /\ tasks' = [tasks EXCEPT ![k] = [t EXCEPT !.pc = "applyOtUpdate", !.ops = ops]]
                /\ UNCHANGED << syncLock, status, joinedDocs, baseContent >>
           ELSE /\ tasks' = RemoveAt(tasks, k)
                /\ syncLock' = releaseLock(syncLock, t.path)
                /\ status' = IF outcome = "ok" THEN "idle" ELSE "error"
                /\ joinedDocs' = IF outcome = "ok" THEN joinedDocs \cup {t.id} ELSE joinedDocs
                /\ baseContent' = IF outcome = "ok" THEN Put(baseContent, t.path, t.bytes)
                                  ELSE baseContent
        /\ srvJoined' = IF outcome = "ok" THEN srvJoined \cup {t.id} ELSE srvJoined
        /\ UNCHANGED << fileTree, ent, fileTreeByPath, fileCache, engSocket,
                        now, fs, srv, notifQ, watchQ, budget, asideVars, envLog >>
        /\ failed' = (failed \/ outcome # "ok")

\* pushDocumentChanges after applyOtUpdate, and the tail of
\* handleLocalFileChange.  The remote acknowledges the sender's own update
\* with a content-changed notification that carries no op.
LChangeApplyOt ==
    \E k \in 1..Len(tasks), outcome \in { "ok", "throw" } :
        LET t == tasks[k] IN
        /\ t.kind = "localChange" /\ t.pc = "applyOtUpdate"
        /\ outcome = "ok" =>
               /\ engSocket
               /\ SrvIs(srv, t.id, "doc") /\ t.id \in srvJoined
               /\ OpsFit(srv[t.id].content, t.ops)
               /\ NotifRoom(1)
        /\ tasks' = RemoveAt(tasks, k)
        /\ syncLock' = releaseLock(syncLock, t.path)
        /\ IF outcome = "ok"
           THEN /\ srv' = [srv EXCEPT ![t.id].content = ApplyOps(@, t.ops)]
                /\ notifQ' = Append(notifQ, Changed(t.id, FALSE, <<>>))
                /\ joinedDocs' = joinedDocs \cup {t.id}
                /\ baseContent' = Put(baseContent, t.path, t.bytes)
                /\ status' = "idle"
           ELSE /\ status' = "error"
                /\ UNCHANGED << srv, notifQ, joinedDocs, baseContent >>
        /\ UNCHANGED << fileTree, ent, fileTreeByPath, fileCache, engSocket,
                        now, fs, srvJoined, watchQ, budget, asideVars, envLog >>
        /\ failed' = (failed \/ outcome # "ok")


\* The remote's side of uploadFile: an entity of that name in the folder is
\* replaced by a new one, and the project's clients are told of both.
UploadOk(s, parentId, name) ==
    /\ SrvIs(s, parentId, "folder")
    /\ FreshId(s) # NoId
    /\ NotifRoom(1 + Cardinality(SrvChild(s, parentId, name)))
AfterUpload(s, parentId, name, bytes) ==
    LET found == SrvChild(s, parentId, name)
        old == IF found = {} THEN <<>> ELSE << CHOOSE x \in found : TRUE >>
        cleared == IF old = <<>> THEN s ELSE SrvRemove(s, old[1])
        id == FreshId(s)
        made == SrvCreate(cleared, id, name, parentId,
                          IF TypeOfName(name) = "doc" THEN Decode(bytes) ELSE bytes)
    IN  [srv |-> made,
         notifs |-> (IF old = <<>> THEN <<>> ELSE << Removed(old[1]) >>)
                    \o << Created(made, id) >>]

\* addDoc / addFolder at the remote: refused when the folder is gone or the
\* name is taken.
AddOk(s, parentId, name) ==
    /\ SrvIs(s, parentId, "folder")
    /\ SrvChild(s, parentId, name) = {}
    /\ FreshId(s) # NoId
    /\ NotifRoom(1)

\* handleLocalFileChange after uploadFile.  An error result is not looked at.
LChangeUpload ==
    \E k \in 1..Len(tasks), outcome \in Outcomes :
        LET t == tasks[k]
            up == AfterUpload(srv, t.parentId, t.name, t.bytes)
        IN
        /\ t.kind = "localChange" /\ t.pc = "uploadFile"
        /\ outcome = "ok" => UploadOk(srv, t.parentId, t.name)
        /\ tasks' = RemoveAt(tasks, k)
        /\ syncLock' = releaseLock(syncLock, t.path)
        /\ IF outcome = "ok"
           THEN srv' = up.srv /\ notifQ' = notifQ \o up.notifs
           ELSE UNCHANGED << srv, notifQ >>
        /\ IF outcome = "throw"
           THEN status' = "error" /\ UNCHANGED baseContent
           ELSE status' = "idle" /\ baseContent' = Put(baseContent, t.path, t.bytes)
        /\ UNCHANGED << fileTree, ent, fileTreeByPath, fileCache, joinedDocs, engSocket,
                        now, fs, srvJoined, watchQ, budget, asideVars, envLog >>
        /\ failed' = (failed \/ outcome # "ok")

\* handleLocalFileCreate after stat: the parent folder and the name.
LCreateStat ==
    \E k \in 1..Len(tasks) :
        LET t == tasks[k]
            parentEntry == ByPath(UpToLastSep(t.path))
            parentId == IF parentEntry # NoId THEN parentEntry ELSE ProjectRootId
        IN
        /\ t.kind = "localCreate" /\ t.pc = "stat"
        /\ IF FsHas(t.path)
           THEN /\ status' = "pushing"
                /\ tasks' = [tasks EXCEPT ![k] =
                     [t EXCEPT !.pc = IF FsIsDir(t.path) THEN "addFolder" ELSE "readFile",
                               !.parentId = parentId, !.name = IF t.path[Len(t.path)] = Sep THEN ""
                                                        ELSE t.path[Len(t.path)]]]
                /\ UNCHANGED syncLock
           ELSE /\ tasks' = RemoveAt(tasks, k)
                /\ syncLock' = releaseLock(syncLock, t.path)
                /\ UNCHANGED status
        /\ UNCHANGED << fileTree, ent, fileTreeByPath, fileCache, baseContent, joinedDocs,
                        engSocket, envVars, asideVars, histVars >>

\* handleLocalFileCreate after addFolder.
LCreateAddFolder ==
    \E k \in 1..Len(tasks), outcome \in Outcomes :
        LET t == tasks[k]
            made == SrvCreate(srv, FreshId(srv), t.name, t.parentId, <<>>)
        IN
        /\ t.kind = "localCreate" /\ t.pc = "addFolder"
        /\ outcome = "ok" => AddOk(srv, t.parentId, t.name) /\ TypeOfName(t.name) = "folder"
        /\ tasks' = RemoveAt(tasks, k)
        /\ syncLock' = releaseLock(syncLock, t.path)
        /\ status' = IF outcome = "throw" THEN "error" ELSE "idle"
        /\ IF outcome = "ok"
           THEN srv' = made /\ notifQ' = Append(notifQ, Created(made, FreshId(srv)))
           ELSE UNCHANGED << srv, notifQ >>
        /\ UNCHANGED << fileTree, ent, fileTreeByPath, fileCache, baseContent, joinedDocs,
                        engSocket, now, fs, srvJoined, watchQ, budget, asideVars, envLog >>
        /\ failed' = (failed \/ outcome # "ok")

\* handleLocalFileCreate after its readFile.
LCreateReadFile ==
    \E k \in 1..Len(tasks) :
        LET t == tasks[k] IN
        /\ t.kind = "localCreate" /\ t.pc = "readFile"
        /\ IF FsIsFile(t.path)
           THEN /\ tasks' = [tasks EXCEPT ![k] =
                     [t EXCEPT !.pc = IF isTextFile(t.name) THEN "addDoc" ELSE "uploadFile",
                               !.bytes = fs[FsKey(t.path)]]]
                /\ UNCHANGED << syncLock, status >>
           ELSE /\ tasks' = RemoveAt(tasks, k)
                /\ syncLock' = releaseLock(syncLock, t.path)
                /\ status' = IF FsHas(t.path) THEN "error" ELSE status
        /\ UNCHANGED << fileTree, ent, fileTreeByPath, fileCache, baseContent, joinedDocs,
                        engSocket, envVars, asideVars, histVars >>

\* handleLocalFileCreate after addDoc or uploadFile.  The new document is
\* created empty; an error result is not looked at.
LCreateSend ==
    \E k \in 1..Len(tasks), outcome \in Outcomes :
        LET t == tasks[k]
            up == AfterUpload(srv, t.parentId, t.name, t.bytes)
            made == SrvCreate(srv, FreshId(srv), t.name, t.parentId, <<>>)
        IN
        /\ t.kind = "localCreate" /\ t.pc \in { "addDoc", "uploadFile" }
        /\ outcome = "ok" =>
               IF t.pc = "addDoc" THEN AddOk(srv, t.parentId, t.name)
               ELSE UploadOk(srv, t.parentId, t.name)
        /\ tasks' = RemoveAt(tasks, k)
        /\ syncLock' = releaseLock(syncLock, t.path)
        /\ IF outcome # "ok" THEN UNCHANGED << srv, notifQ >>
           ELSE IF t.pc = "addDoc"
           THEN srv' = made /\ notifQ' = Append(notifQ, Created(made, FreshId(srv)))
           ELSE srv' = up.srv /\ notifQ' = notifQ \o up.notifs
        /\ IF outcome = "throw"
           THEN status' = "error" /\ UNCHANGED << baseContent, fileCache >>
           ELSE /\ status' = "idle"
                /\ baseContent' = Put(baseContent, t.path, t.bytes)
                /\ fileCache' = Put(fileCache, t.path, CacheEntry(t.bytes, now))
        /\ UNCHANGED << fileTree, ent, fileTreeByPath, joinedDocs, engSocket,
                        now, fs, srvJoined, watchQ, budget, asideVars, envLog >>
        /\ failed' = (failed \/ outcome # "ok")

\* handleLocalFileDelete after deleteEntity.  An error result is not looked
\* at: the entry leaves the index either way.
LDeleteEntity ==
    \E k \in 1..Len(tasks), outcome \in Outcomes :
        LET t == tasks[k] IN
        /\ t.kind = "localDelete" /\ t.pc = "deleteEntity"
        /\ outcome = "ok" => SrvIs(srv, t.id, t.etype) /\ NotifRoom(1)
        /\ tasks' = RemoveAt(tasks, k)
        /\ syncLock' = releaseLock(syncLock, t.path)
        /\ IF outcome = "ok"
           THEN srv' = SrvRemove(srv, t.id) /\ notifQ' = Append(notifQ, Removed(t.id))
           ELSE UNCHANGED << srv, notifQ >>
        /\ IF outcome = "throw"
           THEN /\ status' = "error"
                /\ UNCHANGED << fileTree, fileTreeByPath, baseContent, fileCache >>
           ELSE /\ status' = "idle"
                /\ fileTree' = SeqWithout(fileTree, t.id)
                /\ fileTreeByPath' = Del(fileTreeByPath, t.path)
                /\ baseContent' = Del(baseContent, t.path)
                /\ fileCache' = Del(fileCache, t.path)
        /\ UNCHANGED << ent, joinedDocs, engSocket, now, fs, srvJoined, watchQ, budget,
                        asideVars, envLog >>
        /\ failed' = (failed \/ outcome # "ok")


\* ------------------------------------------------------------------------
\* Remote change handlers
\* ------------------------------------------------------------------------

\* entry.type === 'folder' ? parentPath + name + '/' : parentPath + name
ChildPath(parentPath, name, type) ==
    IF type = "folder" THEN parentPath \o << name, Sep >> ELSE parentPath \o << name >>

\* The path a notification's handler locks, << >> when it returns before
\* it looks at the lock.
NotifPath(n) ==
    IF n.kind = "created"
    THEN ChildPath(IF InTree(n.parentId) THEN ent[n.parentId].path ELSE << Sep >>,
                   n.name, n.etype)
    ELSE IF ~InTree(n.id) THEN <<>>
    ELSE IF n.kind = "moved" /\ ~InTree(n.parentId) THEN <<>>
    ELSE IF n.kind = "changed" /\ ent[n.id].type # "doc" THEN <<>>
    ELSE ent[n.id].path

\* The socket delivers its next notification: the synchronous head of
\* handleRemoteFileCreated, -Renamed, -Removed, -Moved or -Changed.
DeliverNotif ==
    /\ engSocket
    /\ notifQ # <<>>
    /\ Len(tasks) < MaxTasks
    /\ LET n == Head(notifQ)
           path == NotifPath(n)
           lk == acquireLock(syncLock, path)
       IN
       /\ notifQ' = Tail(notifQ)
       /\ IF path = <<>> \/ (n.kind \in { "created", "removed", "changed" } /\ ~shouldSync(path)) \/ ~lk.ok
          THEN UNCHANGED engVars
          ELSE
          /\ syncLock' = lk.locks
          /\ status' = IF n.kind = "changed" THEN status ELSE "pulling"
          /\ UNCHANGED << fileCache, baseContent, joinedDocs, engSocket >>
          /\ IF n.kind = "created"
             THEN /\ fileTree' = SeqAdd(fileTree, n.id)
                  /\ ent' = Put(ent, n.id, Entry(n.id, n.etype, n.name, path, n.parentId))
                  /\ fileTreeByPath' = Put(fileTreeByPath, path, n.id)
                  /\ tasks' = Append(tasks,
                       [Task("remoteCreated",
                             IF n.etype = "folder" THEN "createDirectory"
                             ELSE IF n.etype = "doc" THEN "getDocContent" ELSE "getFile",
                             path, n.id) EXCEPT !.etype = n.etype])
             ELSE IF n.kind \in { "renamed", "moved" }
             THEN LET newPath ==
                          IF n.kind = "renamed"
                          THEN ChildPath(UpToLastSep(ent[n.id].path), n.name, ent[n.id].type)
                          ELSE ChildPath(ent[n.parentId].path, ent[n.id].name, ent[n.id].type)
                  IN
                  /\ ent' = [ent EXCEPT ![n.id] =
                       IF n.kind = "renamed"
                       THEN [@ EXCEPT !.name = n.name, !.path = newPath]
                       ELSE [@ EXCEPT !.path = newPath, !.parentId = n.parentId]]
                  /\ fileTreeByPath' = Put(Del(fileTreeByPath, path), newPath, n.id)
                  /\ tasks' = Append(tasks,
                       [Task(IF n.kind = "renamed" THEN "remoteRenamed" ELSE "remoteMoved",
                             "rename", path, n.id) EXCEPT !.newPath = newPath])
                  /\ UNCHANGED fileTree
             ELSE IF n.kind = "removed"
             THEN IF ent[n.id].type = "doc" /\ n.id \in joinedDocs
                  THEN /\ tasks' = Append(tasks, Task("remoteRemoved", "leaveDoc", path, n.id))
                       /\ UNCHANGED << fileTree, ent, fileTreeByPath >>
                  ELSE /\ tasks' = Append(tasks, Task("remoteRemoved", "delete", path, n.id))
                       /\ fileTree' = SeqWithout(fileTree, n.id)
                       /\ fileTreeByPath' = Del(fileTreeByPath, path)
                       /\ UNCHANGED ent
             ELSE /\ tasks' = Append(tasks,
                       [Task("remoteChanged", "readFile", path, n.id)
                           EXCEPT !.ops = n.ops, !.hasOp = n.hasOp])
                  /\ UNCHANGED << fileTree, ent, fileTreeByPath >>
    /\ UNCHANGED << now, fs, srv, srvJoined, watchQ, budget, asideVars, histVars >>


\* A handler ends and releases the path its entry has by then.
LeaveNewPath(k) ==
    /\ tasks' = RemoveAt(tasks, k)
    /\ syncLock' = releaseLock(syncLock, IF tasks[k].newPath # <<>> THEN tasks[k].newPath
                                         ELSE tasks[k].path)

\* A handler ends: its task is gone and its lock released.
Leave(k) ==
    /\ tasks' = RemoveAt(tasks, k)
    /\ syncLock' = releaseLock(syncLock, tasks[k].path)

\* handleRemoteFileCreated after createDirectory.
RCreatedMkdir ==
    \E k \in 1..Len(tasks) :
        LET t == tasks[k] IN
        /\ t.kind = "remoteCreated" /\ t.pc = "createDirectory"
        /\ Leave(k)
        /\ IF FsIsFile(t.path)
           THEN UNCHANGED << fs, watchQ, status >>
           ELSE /\ ~FsHas(t.path) => WatchRoom(1)
                /\ fs' = Put(WithParents(fs, FsKey(t.path)), FsKey(t.path), DirEntry)
                /\ watchQ' = IF FsHas(t.path) THEN watchQ
                             ELSE Append(watchQ, WatchEvent("create", FsKey(t.path)))
                /\ status' = "idle"
        /\ UNCHANGED << fileTree, ent, fileTreeByPath, fileCache, baseContent, joinedDocs,
                        engSocket, now, srv, srvJoined, notifQ, budget, asideVars, histVars >>

\* handleRemoteFileCreated after getDocContent or getFile.  A document that
\* cannot be fetched gives an error result and no content; a file that
\* cannot be downloaded gives a success result with empty content.
RCreatedFetch ==
    \E k \in 1..Len(tasks), outcome \in Outcomes :
        LET t == tasks[k]
            content == IF t.etype = "doc"
                       THEN IF outcome = "ok"
                            THEN Encode(JoinLines(SplitLines(srv[t.id].content)))
                            ELSE NoBytes
                       ELSE IF outcome = "ok" THEN srv[t.id].content ELSE <<>>
        IN
        /\ t.kind = "remoteCreated" /\ t.pc \in { "getDocContent", "getFile" }
        /\ outcome = "ok" => SrvIs(srv, t.id, t.etype)
        /\ IF outcome = "throw"
           THEN Leave(k) /\ UNCHANGED status
           ELSE IF content # NoBytes
           THEN /\ tasks' = [tasks EXCEPT ![k] = [t EXCEPT !.pc = "writeFile", !.out = content]]
                /\ UNCHANGED << syncLock, status >>
           ELSE IF t.etype = "doc" /\ engSocket /\ t.id \notin joinedDocs
           THEN /\ tasks' = [tasks EXCEPT ![k] = [t EXCEPT !.pc = "joinDoc"]]
                /\ UNCHANGED << syncLock, status >>
           ELSE Leave(k) /\ status' = "idle"
        /\ UNCHANGED << fileTree, ent, fileTreeByPath, fileCache, baseContent, joinedDocs,
                        engSocket, envVars, asideVars, envLog >>
        /\ failed' = (failed \/ outcome # "ok")

\* handleRemoteFileCreated after writeFile.
RCreatedWrite ==
    \E k \in 1..Len(tasks) :
        LET t == tasks[k] IN
        /\ t.kind = "remoteCreated" /\ t.pc = "writeFile"
        /\ IF FsIsDir(t.path)
           THEN /\ Leave(k)
                /\ UNCHANGED << fs, watchQ, status, baseContent, fileCache >>
           ELSE /\ WatchRoom(1)
                /\ fs' = FsWrite(fs, t.path, t.out)
                /\ watchQ' = Append(watchQ, WriteEvent(t.path))
                /\ baseContent' = Put(baseContent, t.path, t.out)
                /\ fileCache' = Put(fileCache, t.path, CacheEntry(t.out, now))
                /\ IF t.etype = "doc" /\ engSocket /\ t.id \notin joinedDocs
                   THEN /\ tasks' = [tasks EXCEPT ![k] = [t EXCEPT !.pc = "joinDoc"]]
                        /\ UNCHANGED << syncLock, status >>
                   ELSE Leave(k) /\ status' = "idle"
        /\ UNCHANGED << fileTree, ent, fileTreeByPath, joinedDocs, engSocket,
                        now, srv, srvJoined, notifQ, budget, asideVars, histVars >>

\* handleRemoteFileCreated after joinDoc: a failure is ignored.
RCreatedJoin ==
    \E k \in 1..Len(tasks), outcome \in { "ok", "throw" } :
        LET t == tasks[k] IN
        /\ t.kind = "remoteCreated" /\ t.pc = "joinDoc"
        /\ outcome = "ok" => (engSocket /\ SrvIs(srv, t.id, "doc"))
        /\ Leave(k)
        /\ status' = "idle"
        /\ joinedDocs' = IF outcome = "ok" THEN joinedDocs \cup {t.id} ELSE joinedDocs
        /\ srvJoined' = IF outcome = "ok" THEN srvJoined \cup {t.id} ELSE srvJoined
        /\ UNCHANGED << fileTree, ent, fileTreeByPath, fileCache, baseContent, engSocket,
                        now, fs, srv, notifQ, watchQ, budget, asideVars, envLog >>
        /\ failed' = (failed \/ outcome # "ok")

\* handleRemoteFileRenamed and handleRemoteFileMoved after fs.rename, which
\* fails when the source is missing, the target exists or the target lies
\* inside the source.  Only the rename handler moves the caches: the value
\* of the old path goes to the new path when there is one.
RRenameFs ==
    \E k \in 1..Len(tasks) :
        LET t == tasks[k] IN
        /\ t.kind \in { "remoteRenamed", "remoteMoved" } /\ t.pc = "rename"
        /\ Leave(k)
        /\ IF ~FsHas(t.path) \/ FsHas(t.newPath) \/ Under(FsKey(t.newPath), FsKey(t.path))
           THEN UNCHANGED << fs, watchQ, status, baseContent, fileCache >>
           ELSE /\ WatchRoom(2)
                /\ fs' = FsRename(WithParents(fs, FsKey(t.newPath)), t.path, t.newPath)
                /\ watchQ' = watchQ \o << WatchEvent("delete", FsKey(t.path)),
                                          WatchEvent("create", FsKey(t.newPath)) >>
                /\ status' = "idle"
                /\ IF t.kind = "remoteRenamed"
                   THEN /\ baseContent' =
                             IF Has(baseContent, t.path)
                             THEN Put(Del(baseContent, t.path), t.newPath, baseContent[t.path])
                             ELSE baseContent
                        /\ fileCache' =
                             IF Has(fileCache, t.path)
                             THEN Put(Del(fileCache, t.path), t.newPath, fileCache[t.path])
                             ELSE fileCache
                   ELSE UNCHANGED << baseContent, fileCache >>
        /\ UNCHANGED << fileTree, ent, fileTreeByPath, joinedDocs, engSocket,
                        now, srv, srvJoined, notifQ, budget, asideVars, histVars >>


\* handleRemoteFileRemoved after leaveDoc: a failure is ignored, then the
\* entry leaves the index.
RRemovedLeave ==
    \E k \in 1..Len(tasks), outcome \in { "ok", "throw" } :
        LET t == tasks[k] IN
        /\ t.kind = "remoteRemoved" /\ t.pc = "leaveDoc"
        /\ outcome = "ok" => engSocket
        /\ tasks' = [tasks EXCEPT ![k] = [t EXCEPT !.pc = "delete"]]
        /\ joinedDocs' = joinedDocs \ {t.id}
        /\ srvJoined' = IF outcome = "ok" THEN srvJoined \ {t.id} ELSE srvJoined
        /\ fileTree' = SeqWithout(fileTree, t.id)
        /\ fileTreeByPath' = Del(fileTreeByPath, ent[t.id].path)
        /\ UNCHANGED << ent, fileCache, baseContent, syncLock, status, engSocket,
                        now, fs, srv, notifQ, watchQ, budget, asideVars, envLog >>
        /\ failed' = (failed \/ outcome # "ok")

\* handleRemoteFileRemoved after fs.delete, which fails when nothing is
\* there.
RRemovedFs ==
    \E k \in 1..Len(tasks) :
        LET t == tasks[k] IN
        /\ t.kind = "remoteRemoved" /\ t.pc = "delete"
        /\ Leave(k)
        /\ IF ~FsHas(t.path)
           THEN UNCHANGED << fs, watchQ, status, baseContent, fileCache >>
           ELSE /\ WatchRoom(1)
                /\ fs' = FsDelete(fs, t.path)
                /\ watchQ' = Append(watchQ, WatchEvent("delete", FsKey(t.path)))
                /\ baseContent' = Del(baseContent, t.path)
                /\ fileCache' = Del(fileCache, t.path)
                /\ status' = "idle"
        /\ UNCHANGED << fileTree, ent, fileTreeByPath, joinedDocs, engSocket,
                        now, srv, srvJoined, notifQ, budget, asideVars, histVars >>

\* handleRemoteFileChanged after readFile: a file that cannot be read is
\* undefined bytes and the empty text.
RChangedRead ==
    \E k \in 1..Len(tasks) :
        LET t == tasks[k]
            localBytes == IF FsIsFile(t.path) THEN fs[FsKey(t.path)] ELSE NoBytes
            localContent == IF localBytes = NoBytes THEN <<>> ELSE Decode(localBytes)
            contentBytes == Encode(IF t.hasOp THEN ApplyOps(localContent, t.ops)
                                   ELSE localContent)
        IN
        /\ t.kind = "remoteChanged" /\ t.pc = "readFile"
        /\ IF ~contentEquals(localBytes, contentBytes)
           THEN /\ status' = "pulling"
                /\ tasks' = [tasks EXCEPT ![k] =
                     [t EXCEPT !.pc = "writeFile", !.bytes = localBytes, !.out = contentBytes]]
                /\ UNCHANGED << syncLock, baseContent, fileCache >>
           ELSE /\ Leave(k)
                /\ baseContent' = Put(baseContent, t.path, contentBytes)
                /\ fileCache' = Put(fileCache, t.path, CacheEntry(contentBytes, now))
                /\ status' = "idle"
        /\ UNCHANGED << fileTree, ent, fileTreeByPath, joinedDocs, engSocket,
                        envVars, asideVars, histVars >>

\* handleRemoteFileChanged after writeFile.
RChangedWrite ==
    \E k \in 1..Len(tasks) :
        LET t == tasks[k] IN
        /\ t.kind = "remoteChanged" /\ t.pc = "writeFile"
        /\ Leave(k)
        /\ IF FsIsDir(t.path)
           THEN UNCHANGED << fs, watchQ, status, baseContent, fileCache >>
           ELSE /\ WatchRoom(1)
                /\ fs' = FsWrite(fs, t.path, t.out)
                /\ watchQ' = Append(watchQ, WriteEvent(t.path))
                /\ baseContent' = Put(baseContent, t.path, t.out)
                /\ fileCache' = Put(fileCache, t.path, CacheEntry(t.out, now))
                /\ status' = "idle"
        /\ UNCHANGED << fileTree, ent, fileTreeByPath, joinedDocs, engSocket,
                        now, srv, srvJoined, notifQ, budget, asideVars, histVars >>


\* ------------------------------------------------------------------------
\* The user, the collaborators and the clock
\* ------------------------------------------------------------------------

UserPaths == { << Sep, "a.tex" >>, << Sep, "p.png" >> }
UserBytes == { << 97 >>, << 98 >> }

\* The user saves a file of the workspace.
UserWrite ==
    \E path \in UserPaths, bytes \in UserBytes :
        /\ budget > 0 /\ WatchRoom(1)
        /\ ~FsIsDir(path)
        /\ FsHas(path) => fs[path] # bytes
        /\ fs' = FsWrite(fs, path, bytes)
        /\ watchQ' = Append(watchQ, WriteEvent(path))
        /\ budget' = budget - 1
        /\ UNCHANGED << engVars, now, srv, srvJoined, notifQ, asideVars, failed >>
        /\ envLog' = Append(envLog, "write")

\* The user deletes a file of the workspace.
UserDelete ==
    \E path \in UserPaths :
        /\ budget > 0 /\ WatchRoom(1)
        /\ FsHas(path)
        /\ fs' = FsDelete(fs, path)
        /\ watchQ' = Append(watchQ, WatchEvent("delete", path))
        /\ budget' = budget - 1
        /\ UNCHANGED << engVars, now, srv, srvJoined, notifQ, asideVars, failed >>
        /\ envLog' = Append(envLog, "delete")

\* A collaborator edits a document; clients that joined it are sent the ops.
CollabEdit ==
    \E id \in DOMAIN srv, text \in UserBytes :
        /\ budget > 0
        /\ SrvIs(srv, id, "doc") /\ srv[id].content # text
        /\ id \in srvJoined => NotifRoom(1)
        /\ srv' = [srv EXCEPT ![id].content = text]
        /\ notifQ' = IF id \in srvJoined
                     THEN Append(notifQ, Changed(id, TRUE, calculateOps(srv[id].content, text)))
                     ELSE notifQ
        /\ budget' = budget - 1
        /\ UNCHANGED << engVars, now, fs, srvJoined, watchQ, asideVars, failed >>
        /\ envLog' = Append(envLog, "edit")

\* A collaborator creates a document, a file or a folder.
CollabCreate ==
    \E parentId \in DOMAIN srv, name \in Names :
        LET made == SrvCreate(srv, FreshId(srv), name, parentId,
                              IF TypeOfName(name) = "file" THEN << 97 >> ELSE <<>>)
        IN
        /\ budget > 0
        /\ AddOk(srv, parentId, name)
        /\ srv' = made
        /\ notifQ' = Append(notifQ, Created(made, FreshId(srv)))
        /\ budget' = budget - 1
        /\ UNCHANGED << engVars, now, fs, srvJoined, watchQ, asideVars, failed >>
        /\ envLog' = Append(envLog, "create")

\* A collaborator renames an entity to a name free in its folder.
CollabRename ==
    \E id \in DOMAIN srv, name \in Names :
        /\ budget > 0 /\ NotifRoom(1)
        /\ id # ProjectRootId /\ Has(srv, id) /\ srv[id].live
        /\ TypeOfName(name) = srv[id].type
        /\ SrvChild(srv, srv[id].parentId, name) = {}
        /\ srv' = [srv EXCEPT ![id].name = name]
        /\ notifQ' = Append(notifQ, Notif("renamed", id, NoId, "", name, FALSE, <<>>))
        /\ budget' = budget - 1
        /\ UNCHANGED << engVars, now, fs, srvJoined, watchQ, asideVars, failed >>
        /\ envLog' = Append(envLog, "rename")

\* A collaborator moves an entity into another folder.
CollabMove ==
    \E id \in DOMAIN srv, folderId \in DOMAIN srv :
        /\ budget > 0 /\ NotifRoom(1)
        /\ id # ProjectRootId /\ srv[id].live
        /\ SrvIs(srv, folderId, "folder") /\ folderId # srv[id].parentId
        /\ ~SrvUnder(srv, folderId, id)
        /\ SrvChild(srv, folderId, srv[id].name) = {}
        /\ srv' = [srv EXCEPT ![id].parentId = folderId]
        /\ notifQ' = Append(notifQ, Notif("moved", id, folderId, "", "", FALSE, <<>>))
        /\ budget' = budget - 1
        /\ UNCHANGED << engVars, now, fs, srvJoined, watchQ, asideVars, failed >>
        /\ envLog' = Append(envLog, "move")

\* A collaborator deletes an entity, with all below it.
CollabRemove ==
    \E id \in DOMAIN srv :
        /\ budget > 0 /\ NotifRoom(1)
        /\ id # ProjectRootId /\ srv[id].live
        /\ srv' = SrvRemove(srv, id)
        /\ notifQ' = Append(notifQ, Removed(id))
        /\ budget' = budget - 1
        /\ UNCHANGED << engVars, now, fs, srvJoined, watchQ, asideVars, failed >>
        /\ envLog' = Append(envLog, "remove")

\* Half a second passes.
Tick ==
    /\ now < MaxTicks * DEBOUNCE_DELAY
    /\ now' = now + DEBOUNCE_DELAY
    /\ UNCHANGED << engVars, fs, srv, srvJoined, notifQ, watchQ, budget, asideVars, histVars >>

\* ------------------------------------------------------------------------
\* The engine after connect(), and its behaviours
\* ------------------------------------------------------------------------

\* The project the engine connected to: a document and an empty folder.
InitProject ==
    [rootFolder |-> << Folder(ProjectRootId, "rootFolder", << Leaf("e1", "a.tex") >>, <<>>,
                              << Folder("f1", "d", <<>>, <<>>, <<>>) >>) >>]

InitSrv ==
    LET root == [type |-> "folder", name |-> "rootFolder", parentId |-> NoId,
                 content |-> <<>>, live |-> TRUE]
    IN  SrvCreate(SrvCreate(Put(EmptyMap, ProjectRootId, root),
                            "e1", "a.tex", ProjectRootId, << 97 >>),
                  "f1", "d", ProjectRootId, <<>>)

\* connect() over the socket has built the index from the snapshot; nothing
\* is cached, locked or joined yet.  The workspace is in step with the
\* project, or has the document edited, or lacks the document.
Init ==
    /\ fileTree = buildFileTree(InitProject).tree
    /\ ent = buildFileTree(InitProject).heap
    /\ fileTreeByPath = buildFileTree(InitProject).byPath
    /\ fileCache = EmptyMap /\ baseContent = EmptyMap
    /\ syncLock = {} /\ joinedDocs = {}
    /\ status = "idle" /\ engSocket = TRUE /\ tasks = <<>>
    /\ now = 0 /\ srv = InitSrv /\ srvJoined = {}
    /\ LET dirs == Put(EmptyMap, << Sep, "d" >>, DirEntry)
       IN  fs \in { dirs } \cup { Put(dirs, << Sep, "a.tex" >>, b) : b \in UserBytes }
    /\ notifQ = <<>> /\ watchQ = <<>> /\ budget = MaxEnvOps
    /\ envLog = <<>> /\ failed = FALSE
    /\ OtIdle /\ pull = PullLocals
    /\ conn = [ConnLocals EXCEPT !.cpc = "done", !.watcher = TRUE]

Spec ==
    Init /\ [][
        \/ DeliverWatch \/ LChangeReadFile \/ LChangeJoinDoc \/ LChangeApplyOt \/ LChangeUpload
        \/ LCreateStat \/ LCreateAddFolder \/ LCreateReadFile \/ LCreateSend \/ LDeleteEntity
        \/ DeliverNotif \/ RCreatedMkdir \/ RCreatedFetch \/ RCreatedWrite \/ RCreatedJoin
        \/ RRenameFs \/ RRemovedLeave \/ RRemovedFs \/ RChangedRead \/ RChangedWrite
        \/ UserWrite \/ UserDelete \/ CollabEdit \/ CollabCreate \/ CollabRename
        \/ CollabMove \/ CollabRemove \/ Tick
    ]_vars


\* ------------------------------------------------------------------------
\* pullAll
\* ------------------------------------------------------------------------

\* What pullAll never touches.
pullFrame == << fileTree, ent, fileTreeByPath, syncLock, engSocket, tasks,
                now, notifQ, watchQ, budget, envLog, otVars, conn >>

\* The entry the loop of pullAll is at.
PullEntry == ent[fileTree[pull.idx]]

\* downloadFile returns: the loop goes on to the next entry.
PullNext(p) == [p EXCEPT !.pc = "entry", !.idx = @ + 1]

\* The catch of pullAll.
PullThrown(p) == [p EXCEPT !.pc = "idle", !.ended = "error"]

\* pullAll without the reset of the conflict fields.
PullStartKeeps ==
    /\ pull.pc = "idle" /\ pull.call < MaxPulls
    /\ pull' = [PullLocals EXCEPT !.pc = "entry", !.call = pull.call + 1, !.idx = 1,
                                  !.before = pull.ended,
                                  !.beforeSkipped = pull.skippedCount,
                                  !.beforeAll = pull.applyToAll,
                                  !.conflictResolution = pull.conflictResolution,
                                  !.applyToAll = pull.applyToAll]
    /\ status' = "pulling"
    /\ UNCHANGED << fileCache, baseContent, joinedDocs, fs, srv, srvJoined, failed,
                    pullFrame >>

\* pullAll is called: the conflict fields and the counters are reset.
PullStart ==
    /\ pull.pc = "idle" /\ pull.call < MaxPulls
    /\ pull' = [PullLocals EXCEPT !.pc = "entry", !.call = pull.call + 1, !.idx = 1,
                                  !.before = pull.ended,
                                  !.beforeSkipped = pull.skippedCount,
                                  !.beforeAll = pull.applyToAll]
    /\ status' = "pulling"
    /\ UNCHANGED << fileCache, baseContent, joinedDocs, fs, srv, srvJoined, failed,
                    pullFrame >>

\* The loop is through: updateLastSynced and the idle status.
PullFinish ==
    /\ pull.pc = "entry" /\ pull.idx > Len(fileTree)
    /\ pull' = [pull EXCEPT !.pc = "idle", !.ended = "ok"]
    /\ status' = "idle"
    /\ UNCHANGED << fileCache, baseContent, joinedDocs, fs, srv, srvJoined, failed,
                    pullFrame >>

\* downloadFile for a folder (createDirectory) or an ignored path.
PullPass ==
    /\ pull.pc = "entry" /\ pull.idx <= Len(fileTree)
    /\ PullEntry.type = "folder" \/ shouldIgnore(PullEntry.path)
    /\ IF PullEntry.type = "folder" /\ FsIsFile(PullEntry.path)
       THEN pull' = PullThrown(pull) /\ status' = "error" /\ UNCHANGED fs
       ELSE /\ pull' = PullNext(pull)
            /\ fs' = IF PullEntry.type = "folder"
                     THEN Put(WithParents(fs, FsKey(PullEntry.path)), FsKey(PullEntry.path),
                              DirEntry)
                     ELSE fs
            /\ UNCHANGED status
    /\ UNCHANGED << fileCache, baseContent, joinedDocs, srv, srvJoined, failed, pullFrame >>

\* downloadFile gets the remote content: joinDoc and leaveDoc for a document
\* with a socket, getDocContent without one, getFile for a file.
PullFetch ==
    \E outcome \in Outcomes :
        LET e == PullEntry
            text == srv[e.id].content
            remote == IF e.type = "file" THEN (IF outcome = "ok" THEN text ELSE <<>>)
                      ELSE IF engSocket THEN Encode(JoinLines(joinDocLines(text)))
                      ELSE Encode(JoinLines(SplitLines(text)))
            returns == IF e.type = "file" THEN FALSE ELSE outcome # "ok"
            throws == outcome = "throw" /\ ~(e.type = "doc" /\ engSocket)
        IN
        /\ pull.pc = "entry" /\ pull.idx <= Len(fileTree)
        /\ e.type # "folder" /\ ~shouldIgnore(e.path)
        /\ outcome = "ok" => SrvIs(srv, e.id, e.type)
        /\ failed' = (failed \/ outcome # "ok")
        /\ IF throws THEN pull' = PullThrown(pull) /\ status' = "error"
           ELSE IF returns THEN pull' = PullNext(pull) /\ UNCHANGED status
           ELSE /\ pull' = [pull EXCEPT !.pc = "compare", !.path = e.path,
                                        !.remoteContent = remote,
                                        !.exists = FALSE, !.localContent = NoBytes,
                                        !.resolution = "", !.sent = 0, !.wrote = FALSE]
                /\ UNCHANGED status
        /\ srvJoined' = IF e.type = "doc" /\ engSocket /\ outcome = "ok"
                        THEN srvJoined \ {e.id} ELSE srvJoined
        /\ UNCHANGED << fileCache, baseContent, joinedDocs, fs, srv, pullFrame >>

\* What a resolution leads to.
Resolved(p, resolution) ==
    IF resolution = "skip"
    THEN PullNext([p EXCEPT !.resolution = resolution, !.skippedCount = @ + 1])
    ELSE [p EXCEPT !.resolution = resolution,
                   !.pc = IF resolution = "useLocal" THEN "pushRead" ELSE "download"]

\* localFileExists and hasConflict; a conflict is counted, and resolved at
\* once when an earlier answer applies to all.
PullCompare ==
    LET e == PullEntry
        conflict == FsIsFile(e.path) /\ ~contentEquals(fs[FsKey(e.path)], pull.remoteContent)
        seen == [pull EXCEPT !.exists = FsHas(e.path),
                             !.conflictCount = IF conflict THEN @ + 1 ELSE @]
    IN
    /\ pull.pc = "compare"
    /\ pull' = IF ~conflict THEN [seen EXCEPT !.pc = "download"]
               ELSE IF pull.applyToAll /\ pull.conflictResolution # "ask"
               THEN Resolved(seen, pull.conflictResolution)
               ELSE [seen EXCEPT !.pc = "ask"]
    /\ status' = IF conflict /\ pull.applyToAll /\ pull.conflictResolution = "useLocal"
                 THEN "pushing" ELSE status
    /\ UNCHANGED << fileCache, baseContent, joinedDocs, fs, srv, srvJoined, failed,
                    pullFrame >>

\* askConflictResolution: the user answers the prompt.
PullAsk ==
    \E choice \in { "Remote", "Local", "All Remote", "All Local", "Dismiss" } :
        LET resolution == IF choice \in { "Remote", "All Remote" } THEN "useRemote"
                          ELSE IF choice \in { "Local", "All Local" } THEN "useLocal"
                          ELSE "skip"
            all == choice \in { "All Remote", "All Local" }
        IN
        /\ pull.pc = "ask"
        /\ pull' = Resolved([pull EXCEPT
                       !.asked = @ \cup { PullEntry.path },
                       !.conflictResolution = IF all THEN resolution ELSE @,
                       !.applyToAll = IF all THEN TRUE ELSE @], resolution)
        /\ status' = IF resolution = "useLocal" THEN "pushing" ELSE status
        /\ UNCHANGED << fileCache, baseContent, joinedDocs, fs, srv, srvJoined, failed,
                        pullFrame >>

\* The tail of the useLocal branch: both caches take the local content.
PullKeptLocal(path, bytes) ==
    /\ baseContent' = Put(baseContent, path, bytes)
    /\ fileCache' = Put(fileCache, path, CacheEntry(bytes, now))

\* useLocal: the local file is read, and the push or the upload is issued.
PullPushRead ==
    LET e == PullEntry IN
    /\ pull.pc = "pushRead"
    /\ IF ~FsIsFile(e.path)
       THEN pull' = PullThrown(pull) /\ status' = "error"
       ELSE /\ pull' = [pull EXCEPT !.localContent = fs[FsKey(e.path)],
                           !.pc = IF e.type = "doc" /\ engSocket THEN "pushJoin"
                                  ELSE "pushUpload",
                           !.sent = IF e.type = "doc" /\ engSocket THEN 0 ELSE 1]
            /\ UNCHANGED status
    /\ UNCHANGED << fileCache, baseContent, joinedDocs, fs, srv, srvJoined, failed,
                    pullFrame >>

\* useLocal, pushDocumentChanges after joinDoc: applyOtUpdate is issued only
\* when the diff is not empty.
PullPushJoin ==
    \E outcome \in { "ok", "throw" } :
        LET e == PullEntry
            ops == calculateOps(JoinLines(joinDocLines(srv[e.id].content)),
                                Decode(pull.localContent))
        IN
        /\ pull.pc = "pushJoin"
        /\ outcome = "ok" => SrvIs(srv, e.id, "doc")
        /\ failed' = (failed \/ outcome # "ok")
        /\ srvJoined' = IF outcome = "ok" THEN srvJoined \cup {e.id} ELSE srvJoined
        /\ IF outcome = "throw"
           THEN /\ pull' = PullThrown(pull) /\ status' = "error"
                /\ UNCHANGED << joinedDocs, baseContent, fileCache >>
           ELSE IF ops # <<>>
           THEN /\ pull' = [pull EXCEPT !.pc = "pushApply", !.sent = 1]
                /\ UNCHANGED << status, joinedDocs, baseContent, fileCache >>
           ELSE /\ pull' = PullNext(pull)
                /\ joinedDocs' = joinedDocs \cup {e.id}
                /\ PullKeptLocal(e.path, pull.localContent)
                /\ UNCHANGED status
        /\ UNCHANGED << fs, srv, pullFrame >>

\* useLocal, pushDocumentChanges after applyOtUpdate.
PullPushApply ==
    \E outcome \in { "ok", "throw" } :
        LET e == PullEntry
            ops == calculateOps(srv[e.id].content, Decode(pull.localContent))
        IN
        /\ pull.pc = "pushApply"
        /\ outcome = "ok" => SrvIs(srv, e.id, "doc") /\ e.id \in srvJoined
        /\ failed' = (failed \/ outcome # "ok")
        /\ IF outcome = "throw"
           THEN /\ pull' = PullThrown(pull) /\ status' = "error"
                /\ UNCHANGED << srv, joinedDocs, baseContent, fileCache >>
           ELSE /\ pull' = PullNext(pull)
                /\ srv' = [srv EXCEPT ![e.id].content = ApplyOps(@, ops)]
                /\ joinedDocs' = joinedDocs \cup {e.id}
                /\ PullKeptLocal(e.path, pull.localContent)
                /\ UNCHANGED status
        /\ UNCHANGED << fs, srvJoined, pullFrame >>

\* useLocal after uploadFile: an error result is not looked at.
PullPushUpload ==
    \E outcome \in Outcomes :
        LET e == PullEntry IN
        /\ pull.pc = "pushUpload"
        /\ outcome = "ok" => UploadOk(srv, e.parentId, e.name)
        /\ failed' = (failed \/ outcome # "ok")
        /\ srv' = IF outcome = "ok"
                  THEN AfterUpload(srv, e.parentId, e.name, pull.localContent).srv ELSE srv
        /\ IF outcome = "throw"
           THEN /\ pull' = PullThrown(pull) /\ status' = "error"
                /\ UNCHANGED << baseContent, fileCache >>
           ELSE /\ pull' = PullNext(pull)
                /\ PullKeptLocal(e.path, pull.localContent)
                /\ UNCHANGED status
        /\ UNCHANGED << joinedDocs, fs, srvJoined, pullFrame >>

\* The local content is read again and compared: equal contents only
\* refresh the caches.
PullDownload ==
    LET e == PullEntry
        localContent == IF pull.exists /\ FsIsFile(e.path) THEN fs[FsKey(e.path)] ELSE NoBytes
    IN
    /\ pull.pc = "download"
    /\ IF contentEquals(localContent, pull.remoteContent)
       THEN /\ pull' = PullNext(pull)
            /\ baseContent' = Put(baseContent, e.path, pull.remoteContent)
            /\ fileCache' = Put(fileCache, e.path, CacheEntry(pull.remoteContent, now))
            /\ UNCHANGED status
       ELSE /\ pull' = [pull EXCEPT !.pc = "write"]
            /\ status' = "pulling"
            /\ UNCHANGED << baseContent, fileCache >>
    /\ UNCHANGED << joinedDocs, fs, srv, srvJoined, failed, pullFrame >>

\* writeFile of the remote content.
PullWrite ==
    LET e == PullEntry IN
    /\ pull.pc = "write"
    /\ IF FsIsDir(e.path)
       THEN /\ pull' = PullThrown(pull) /\ status' = "error"
            /\ UNCHANGED << fs, baseContent, fileCache >>
       ELSE /\ fs' = FsWrite(fs, e.path, pull.remoteContent)
            /\ pull' = PullNext([pull EXCEPT !.wrote = TRUE, !.downloadedCount = @ + 1])
            /\ baseContent' = Put(baseContent, e.path, pull.remoteContent)
            /\ fileCache' = Put(fileCache, e.path, CacheEntry(pull.remoteContent, now))
            /\ UNCHANGED status
    /\ UNCHANGED << joinedDocs, srv, srvJoined, failed, pullFrame >>

\* Two files of the workspace that the remote project does not have:
\* /notes.tex, which was never synchronised, and /draft.tex, which
\* baseContent knows from an earlier synchronisation.
PullLocalOnly == << Sep, "notes.tex" >>

\* The project pullAll runs on: a document, a file and a folder.
PullProject ==
    [rootFolder |-> << Folder(ProjectRootId, "rootFolder", << Leaf("e1", "a.tex") >>,
                              << Leaf("e2", "p.png") >>,
                              << Folder("f1", "d", <<>>, <<>>, <<>>) >>) >>]

\* Connected, with or without a socket, and about to pull.  Some or all of
\* the project's files are in the workspace, with text or with a byte that
\* is no UTF-8; the remote document is a letter or the replacement
\* character.
PullInit ==
    /\ fileTree = buildFileTree(PullProject).tree
    /\ ent = buildFileTree(PullProject).heap
    /\ fileTreeByPath = buildFileTree(PullProject).byPath
    /\ fileCache = EmptyMap /\ baseContent = Put(EmptyMap, << Sep, "draft.tex" >>, << 97 >>)
    /\ syncLock = {} /\ joinedDocs = {}
    /\ status = "idle" /\ engSocket \in BOOLEAN /\ tasks = <<>>
    /\ now = 0 /\ srvJoined = {}
    /\ LET bytes == { << 97 >>, << 98 >>, << 255 >> }
           own == Put(Put(EmptyMap, PullLocalOnly, << 97 >>), << Sep, "draft.tex" >>, << 97 >>)
           docs == { own } \cup { Put(own, << Sep, "a.tex" >>, b) : b \in bytes }
           files == { EmptyMap } \cup { Put(EmptyMap, << Sep, "p.png" >>, b) : b \in bytes }
       IN  fs \in { [path \in DOMAIN d \cup DOMAIN f |->
                        IF path \in DOMAIN d THEN d[path] ELSE f[path]] :
                    d \in docs, f \in files }
    /\ \E text \in { << 97 >>, << ReplacementChar >> } :
           srv = SrvCreate([InitSrv EXCEPT !["e1"].content = text],
                           "e2", "p.png", ProjectRootId, << 97 >>)
    /\ notifQ = <<>> /\ watchQ = <<>> /\ budget = 0
    /\ envLog = <<>> /\ failed = FALSE
    /\ OtIdle /\ pull = PullLocals /\ conn = ConnLocals

SpecPull ==
    PullInit /\ [][
        \/ PullStart \/ PullFinish \/ PullPass \/ PullFetch \/ PullCompare \/ PullAsk
        \/ PullPushRead \/ PullPushJoin \/ PullPushApply \/ PullPushUpload
        \/ PullDownload \/ PullWrite
    ]_vars

\* ------------------------------------------------------------------------
\* SocketIOAPI (init, reinit, registerHandlers, joinProject, reconnect) and
\* SyncEngine.connect
\* ------------------------------------------------------------------------

\* What the socket and connect() never touch.
connFrame == << fileCache, baseContent, syncLock, joinedDocs, tasks,
                envVars, histVars, otVars, pull >>

\* setupInternalHandlers: projectRecordPromise is created under v2 only.
setupInternalHandlersV1(scheme) == "undefined"
setupInternalHandlers(scheme) == IF scheme = "v2" THEN "pending" ELSE "undefined"

\* init(): a new handshake promise, a new socket under the current scheme
\* (api.initSocket starts connecting), the internal listeners on it.  The
\* socket in this.socket before is left as it is.
init(c) ==
    [c EXCEPT !.handshakeComplete = FALSE,
              !.socks = Append(@, [state |-> "connecting", scheme |-> c.scheme,
                                   listeners |-> {}]),
              !.socket = Len(c.socks) + 1,
              !.projectRecordPromise = setupInternalHandlers(c.scheme)]

\* registerHandlers(h): h is pushed, its listeners go on this.socket.
registerHandlers(c, h) ==
    [c EXCEPT !.handlers = Append(@, h),
              !.socks[c.socket].listeners = @ \cup { h }]

\* socket.disconnect() of the library on this.socket: a socket that was
\* connected emits 'disconnect' at once, whose listener clears _connected
\* (and calls every onDisconnected).
WasOpen(c) == c.socket # 0 /\ c.socks[c.socket].state = "open"
socketDisconnect(c) ==
    IF c.socket = 0 THEN c
    ELSE [c EXCEPT !.socks[c.socket].state = "closed",
                   !.connected = IF WasOpen(c) THEN FALSE ELSE @]

\* reinit(newScheme): disconnect, change scheme, init(), and register the
\* handler sets again, in their order.
reinit(c, newScheme) ==
    LET fresh == init([socketDisconnect(c) EXCEPT !.scheme = newScheme, !.handlers = <<>>])
    IN  [fresh EXCEPT !.handlers = c.handlers,
                      !.socks[fresh.socket].listeners =
                          { c.handlers[i] : i \in DOMAIN c.handlers }]

\* joinProject after the handshake: under v1 'joinProject' is emitted on
\* this.socket and raced against connectionRejected and the timers; under
\* v2 projectRecordPromise is raced against the timer.
joinStage(c) ==
    IF c.scheme = "v1" THEN [c EXCEPT !.jpc = "joinV1", !.emitOn = c.socket]
    ELSE IF c.projectRecordPromise = "undefined" THEN [c EXCEPT !.jpc = "rejected"]
    ELSE IF c.projectRecordPromise = "resolved"
         THEN [c EXCEPT !.jpc = "resolved", !.result = c.projectRecord]
    ELSE [c EXCEPT !.jpc = "joinV2", !.waitOn = c.socket]

\* joinProject() up to its first suspension: waitForHandshake returns at
\* once when the handshake is complete, else it races the handshake
\* promise of this init() against its timer.
joinProject(c) ==
    IF c.handshakeComplete THEN joinStage(c)
    ELSE [c EXCEPT !.jpc = "handshake", !.waitOn = c.socket]

\* The guard of both catch blocks of joinProject: this.scheme === 'v1'.
MaySwitchAlways(scheme) == TRUE
MaySwitch(scheme) == scheme = "v1"

\* The catch blocks of joinProject: under v1 reinit('v2') and joinProject()
\* again, else the error is thrown.
joinFailed(c) ==
    IF MaySwitch(c.scheme)
    THEN joinProject([reinit(c, "v2") EXCEPT !.switches = @ + 1])
    ELSE [c EXCEPT !.jpc = "rejected"]

\* What an event leaves behind: the record c and the status st, and, when
\* the event settled the joinProject() that connect() awaits, the rest of
\* connect(): the index built from the snapshot and status idle, or the
\* socket dropped and the HTTP fallback begun.
Settle(c, st) ==
    IF conn.cpc = "join" /\ c.jpc = "resolved"
    THEN /\ conn' = [c EXCEPT !.cpc = "done", !.watcher = TRUE, !.project = c.result]
         /\ fileTree' = buildFileTree(c.result[1]).tree
         /\ ent' = buildFileTree(c.result[1]).heap
         /\ fileTreeByPath' = buildFileTree(c.result[1]).byPath
         /\ status' = "idle"
         /\ UNCHANGED engSocket
    ELSE IF conn.cpc = "join" /\ c.jpc = "rejected"
    THEN /\ conn' = [c EXCEPT !.cpc = "details"]
         /\ status' = "syncing"
         /\ engSocket' = FALSE
         /\ UNCHANGED << fileTree, ent, fileTreeByPath >>
    ELSE /\ conn' = c
         /\ status' = st
         /\ UNCHANGED << fileTree, ent, fileTreeByPath, engSocket >>

\* The status after every onConnected / onDisconnected of the handler sets.
Told(c, st) == IF c.handlers = <<>> THEN status ELSE st

\* The events of a connection that falls back from a v1 handshake timing
\* out to a v2 join that succeeds.
Fallback == { << "handshakeTimeout", "v1" >>, << "connect", "v2" >>,
              << "joinProjectResponse", "v2" >> }

\* c with one more kind of event on record; the kinds outside Fallback are
\* recorded as one.
Saw(c, kind) ==
    [c EXCEPT !.seen = @ \cup { IF kind \in Fallback THEN kind ELSE << "other", "" >> }]

\* connect(): status syncing, then the ignore patterns are loaded.
Connect ==
    /\ conn.cpc = "new"
    /\ conn' = [conn EXCEPT !.cpc = "load"]
    /\ status' = "syncing"
    /\ UNCHANGED << fileTree, ent, fileTreeByPath, engSocket, connFrame >>

\* connect() with setupLocalWatcher called before the identity is looked
\* at.
ConnectOpenWatching ==
    /\ conn.cpc = "load"
    /\ \E identity \in BOOLEAN :
           IF identity
           THEN /\ conn' = [joinProject(registerHandlers(init(conn), "engine"))
                                EXCEPT !.cpc = "join", !.watcher = TRUE]
                /\ engSocket' = TRUE
           ELSE /\ conn' = [conn EXCEPT !.cpc = "notAuthenticated", !.watcher = TRUE]
                /\ UNCHANGED engSocket
    /\ UNCHANGED << fileTree, ent, fileTreeByPath, status, connFrame >>

\* connect() after the load: without an identity it throws 'Not
\* authenticated'; else the SocketIOAPI is constructed (init), the engine's
\* handler set registered and joinProject() called, which waits for the
\* handshake.
ConnectOpen ==
    /\ conn.cpc = "load"
    /\ \E identity \in BOOLEAN :
           IF identity
           THEN /\ conn' = [joinProject(registerHandlers(init(conn), "engine"))
                                EXCEPT !.cpc = "join"]
                /\ engSocket' = TRUE
           ELSE /\ conn' = [conn EXCEPT !.cpc = "notAuthenticated"]
                /\ UNCHANGED engSocket
    /\ UNCHANGED << fileTree, ent, fileTreeByPath, status, connFrame >>

\* 'connect' on a socket: the handshake promise of the latest init() is
\* resolved; a joinProject() waiting on that promise goes on.
OnConnect ==
    \E s \in DOMAIN conn.socks :
        /\ conn.socks[s].state = "connecting"
        /\ LET c == [Saw(conn, << "connect", conn.socks[s].scheme >>)
                        EXCEPT !.socks[s].state = "open",
                               !.connected = TRUE, !.handshakeComplete = TRUE]
           IN  Settle(IF conn.jpc = "handshake" /\ conn.waitOn = conn.socket
                      THEN joinStage(c) ELSE c,
                      status)
        /\ UNCHANGED connFrame

\* The timer of waitForHandshake fires before the handshake promise.
HandshakeTimeout ==
    /\ conn.jpc = "handshake"
    /\ MaySwitch(conn.scheme) => conn.switches < MaxSwitches
    /\ Settle(joinFailed(Saw(conn, << "handshakeTimeout", conn.scheme >>)),
              IF MaySwitch(conn.scheme) /\ WasOpen(conn)
              THEN Told(conn, "disconnected") ELSE status)
    /\ UNCHANGED connFrame

\* A timer of the join fires first: 'Join project timeout', or under v1
\* the 'Socket emit timeout' of the promisified emit.
JoinTimeout ==
    /\ conn.jpc \in { "joinV1", "joinV2" }
    /\ MaySwitch(conn.scheme) => conn.switches < MaxSwitches
    /\ Settle(joinFailed(Saw(conn, << "joinTimeout", conn.scheme >>)),
              IF MaySwitch(conn.scheme) /\ WasOpen(conn)
              THEN Told(conn, "disconnected") ELSE status)
    /\ UNCHANGED connFrame

\* The server answers the emitted 'joinProject' (v1): with the project, or
\* with an error.  The callback runs even when the race is already lost.
OnJoinAck ==
    /\ conn.emitOn # 0
    /\ conn.socks[conn.emitOn].state = "open"
    /\ \E ok \in BOOLEAN :
        /\ (~ok /\ conn.jpc = "joinV1" /\ MaySwitch(conn.scheme))
               => conn.switches < MaxSwitches
        /\ LET heardAck == [Saw(conn, << "joinAck", IF ok THEN "ok" ELSE "error" >>)
                               EXCEPT !.emitOn = 0]
               c == IF ok THEN [heardAck EXCEPT !.projectRecord = conn.snapshot,
                                                !.connected = TRUE]
                    ELSE heardAck
           IN  IF conn.jpc # "joinV1" THEN Settle(c, status)
               ELSE IF ok
               THEN Settle([c EXCEPT !.jpc = "resolved", !.result = conn.snapshot], status)
               ELSE Settle(joinFailed(c),
                           IF MaySwitch(conn.scheme) /\ WasOpen(conn)
                           THEN Told(conn, "disconnected") ELSE status)
    /\ UNCHANGED connFrame

\* 'connectionRejected' on a socket: _connected is cleared, and the
\* listener joinProject put on the socket of its v1 join rejects the race.
OnConnectionRejected ==
    \E s \in DOMAIN conn.socks :
        /\ conn.socks[s].state = "open"
        /\ (conn.jpc = "joinV1" /\ s = conn.emitOn /\ MaySwitch(conn.scheme))
               => conn.switches < MaxSwitches
        /\ LET c == [Saw(conn, << "connectionRejected", conn.socks[s].scheme >>)
                        EXCEPT !.connected = FALSE]
           IN  IF conn.jpc = "joinV1" /\ s = conn.emitOn
               THEN Settle(joinFailed(c),
                           IF MaySwitch(conn.scheme) /\ WasOpen(conn)
                           THEN Told(conn, "disconnected") ELSE status)
               ELSE Settle(c, status)
        /\ UNCHANGED connFrame

\* 'connectionAccepted': publicId, _connected, every onConnected.
OnConnectionAccepted ==
    \E s \in DOMAIN conn.socks :
        /\ conn.socks[s].state = "open"
        /\ Settle([Saw(conn, << "connectionAccepted", conn.socks[s].scheme >>)
                      EXCEPT !.publicId = TRUE, !.connected = TRUE],
                  Told(conn, "idle"))
        /\ UNCHANGED connFrame

\* 'joinProjectResponse' on a v2 socket: publicId, _connected,
\* projectRecord, every onConnected, and the promise made with that socket
\* is resolved with the project.
OnJoinProjectResponse ==
    \E s \in DOMAIN conn.socks :
        /\ conn.socks[s].state = "open"
        /\ conn.socks[s].scheme = "v2"
        /\ LET c == [Saw(conn, << "joinProjectResponse", "v2" >>)
                        EXCEPT !.publicId = TRUE, !.connected = TRUE,
                               !.projectRecord = conn.snapshot,
                               !.projectRecordPromise =
                                   IF s = conn.socket THEN "resolved" ELSE @]
           IN  Settle(IF conn.jpc = "joinV2" /\ conn.waitOn = s
                      THEN [c EXCEPT !.jpc = "resolved", !.result = conn.snapshot]
                      ELSE c,
                      Told(conn, "idle"))
        /\ UNCHANGED connFrame

\* 'disconnect': the connection of a socket is lost.
OnDisconnect ==
    \E s \in DOMAIN conn.socks :
        /\ conn.socks[s].state = "open"
        /\ Settle([Saw(conn, << "disconnect", conn.socks[s].scheme >>)
                      EXCEPT !.socks[s].state = "closed", !.connected = FALSE],
                  Told(conn, "disconnected"))
        /\ UNCHANGED connFrame

\* 'connect_failed' on a socket still connecting, 'forceDisconnect' on a
\* connected one: _connected is cleared.
OnConnectFailed ==
    \E s \in DOMAIN conn.socks :
        /\ conn.socks[s].state # "closed"
        /\ LET kind == IF conn.socks[s].state = "connecting"
                       THEN "connect_failed" ELSE "forceDisconnect"
           IN  Settle([Saw(conn, << kind, conn.socks[s].scheme >>)
                          EXCEPT !.connected = FALSE,
                                 !.socks[s].state =
                                     IF kind = "connect_failed" THEN "closed" ELSE @],
                      status)
        /\ UNCHANGED connFrame

\* A notification of the project (reciveNewDoc, reciveEntityRename,
\* removeEntity, reciveEntityMove, otUpdateApplied) arrives on a socket:
\* the handler sets whose listeners are on that socket are called.
OnFileEvent ==
    \E s \in DOMAIN conn.socks :
        /\ conn.socks[s].state = "open"
        /\ Settle([Saw(conn, << "notification", conn.socks[s].scheme >>)
                      EXCEPT !.heard = conn.socks[s].listeners, !.heardOn = s],
                  status)
        /\ UNCHANGED connFrame

\* reconnect(): nothing when _connected, else init().
Reconnect ==
    /\ conn.socket # 0
    /\ conn.reconnects < MaxReconnects
    /\ LET c == [Saw(conn, << "reconnect", conn.scheme >>) EXCEPT !.reconnects = @ + 1]
       IN  Settle(IF conn.connected THEN c ELSE init(c), status)
    /\ UNCHANGED connFrame

\* SyncEngine.disconnect(): the socket, when there is one, is disconnected
\* (SocketIOAPI.disconnect) and forgotten; the disposables are disposed;
\* status disconnected.
EngineDisconnect ==
    /\ conn' = IF engSocket
               THEN [socketDisconnect(Saw(conn, << "disconnect()", conn.scheme >>))
                        EXCEPT !.connected = FALSE, !.watcher = FALSE]
               ELSE [Saw(conn, << "disconnect()", conn.scheme >>) EXCEPT !.watcher = FALSE]
    /\ engSocket' = FALSE
    /\ status' = "disconnected"
    /\ UNCHANGED << fileTree, ent, fileTreeByPath, connFrame >>

\* Buffer.from(path): the UTF-8 bytes of a path, name by name.
RECURSIVE BufferFrom(_)
BufferFrom(path) ==
    LET bytes(name) ==
            CASE name = Sep -> << 47 >>
              [] name = "a.tex" -> << 97, 46, 116, 101, 120 >>
              [] name = "d" -> << 100 >>
              [] name = "p.png" -> << 112, 46, 112, 110, 103 >>
              [] name = "introduction-part1.tex" ->
                     << 105, 110, 116, 114, 111, 100, 117, 99, 116, 105, 111, 110, 45,
                        112, 97, 114, 116, 49, 46, 116, 101, 120 >>
              [] name = "introduction-part2.tex" ->
                     << 105, 110, 116, 114, 111, 100, 117, 99, 116, 105, 111, 110, 45,
                        112, 97, 114, 116, 50, 46, 116, 101, 120 >>
    IN  IF path = <<>> THEN <<>> ELSE bytes(Head(path)) \o BufferFrom(Tail(path))

\* toString('base64'): three bytes make four characters, each written as
\* its place in the alphabet A-Z a-z 0-9 + / (0..63); a last group of one
\* or two bytes is filled up with '=' (64).
RECURSIVE Base64(_)
Base64(b) ==
    IF b = <<>> THEN <<>>
    ELSE IF Len(b) = 1
    THEN << b[1] \div 4, (b[1] % 4) * 16, 64, 64 >>
    ELSE IF Len(b) = 2
    THEN << b[1] \div 4, (b[1] % 4) * 16 + b[2] \div 16, (b[2] % 16) * 4, 64 >>
    ELSE << b[1] \div 4, (b[1] % 4) * 16 + b[2] \div 16,
            (b[2] % 16) * 4 + b[3] \div 64, b[3] % 64 >> \o Base64(SubSeq(b, 4, Len(b)))

\* buildFileTreeFromEntities: one entry per listed entity, under a
\* pseudo-identity made from the base64 of its path (the letters and
\* digits of it, PSEUDO_ID_LENGTH at most), without parent and without an
\* entry for the root.
RECURSIVE buildFileTreeFromEntities(_)
buildFileTreeFromEntities(entities) ==
    LET alnum(c) == c < 62
        pseudoId(path) ==
            LET stripped == SelectSeq(Base64(BufferFrom(path)), alnum)
            IN  SubSeq(stripped, 1, IF Len(stripped) < PSEUDO_ID_LENGTH
                                    THEN Len(stripped) ELSE PSEUDO_ID_LENGTH)
        e == entities[Len(entities)]
        path == << Sep >> \o e.path
    IN  IF entities = <<>> THEN EmptyIndex
        ELSE AddEntry(buildFileTreeFromEntities(SubSeq(entities, 1, Len(entities) - 1)),
                      Entry(pseudoId(path),
                            IF e.type \in { "folder", "doc" } THEN e.type ELSE "file",
                            path[Len(path)],
                            IF e.type = "folder" THEN path \o << Sep >> ELSE path,
                            NoId))

\* The HTTP fallback of connect(), after getProjectDetails: with a root
\* folder the index is built from it; without, getProjectEntities is
\* asked; a failure ends connect() with status error.
FallbackDetails ==
    /\ conn.cpc = "details"
    /\ \E outcome \in { "rootFolder", "none", "error" } :
           IF outcome = "rootFolder"
           THEN /\ conn' = [conn EXCEPT !.cpc = "done", !.watcher = TRUE,
                                         !.project = conn.snapshot]
                /\ fileTree' = buildFileTree(conn.snapshot[1]).tree
                /\ ent' = buildFileTree(conn.snapshot[1]).heap
                /\ fileTreeByPath' = buildFileTree(conn.snapshot[1]).byPath
                /\ status' = "idle"
           ELSE /\ conn' = [conn EXCEPT !.cpc = IF outcome = "none" THEN "entities"
                                                ELSE "failed"]
                /\ status' = IF outcome = "none" THEN status ELSE "error"
                /\ UNCHANGED << fileTree, ent, fileTreeByPath >>
    /\ UNCHANGED << engSocket, connFrame >>

\* ... after getProjectEntities: the index is built from the list when
\* there is one, and status is idle either way; error when it throws.
FallbackEntities ==
    /\ conn.cpc = "entities"
    /\ \E outcome \in Outcomes :
           LET ix == IF outcome = "ok"
                     THEN buildFileTreeFromEntities(conn.entities)
                     ELSE [tree |-> fileTree, heap |-> ent, byPath |-> fileTreeByPath]
           IN  /\ conn' = [conn EXCEPT !.cpc = IF outcome = "throw" THEN "failed" ELSE "done",
                                        !.watcher = IF outcome = "throw" THEN @ ELSE TRUE,
                                        !.project = IF outcome = "ok"
                                                    THEN << [rootFolder |-> <<>>] >> ELSE @]
               /\ fileTree' = ix.tree /\ ent' = ix.heap /\ fileTreeByPath' = ix.byPath
               /\ status' = IF outcome = "throw" THEN "error" ELSE "idle"
    /\ UNCHANGED << engSocket, connFrame >>

\* An engine just constructed, and the project the server will hand out.
SpecConn ==
    /\ fileTree = <<>>
    /\ ent = EmptyMap
    /\ fileTreeByPath = EmptyMap
    /\ fileCache = EmptyMap
    /\ baseContent = EmptyMap
    /\ syncLock = {}
    /\ joinedDocs = {}
    /\ status = "disconnected"
    /\ engSocket = FALSE
    /\ tasks = <<>>
    /\ now = 0
    /\ fs = EmptyMap
    /\ srv = EmptyMap
    /\ srvJoined = {}
    /\ notifQ = <<>>
    /\ watchQ = <<>>
    /\ budget = 0
    /\ envLog = <<>>
    /\ failed = FALSE
    /\ otOld = <<>> /\ otNew = <<>> /\ otOps = <<>> /\ otOut = <<>> /\ otPc = "idle"
    /\ pull = PullLocals
    /\ \E project \in { InitProject, PullProject } :
           conn = [ConnLocals EXCEPT !.snapshot = << project >>]
    /\ [][
        \/ Connect \/ ConnectOpen \/ OnConnect \/ HandshakeTimeout \/ JoinTimeout
        \/ OnJoinAck \/ OnConnectionRejected \/ OnConnectionAccepted
        \/ OnJoinProjectResponse \/ OnDisconnect \/ OnConnectFailed \/ OnFileEvent
        \/ Reconnect \/ EngineDisconnect \/ FallbackDetails \/ FallbackEntities
       ]_vars

\* The timers of waitForHandshake and of joinProject are set with
\* setTimeout and do fire.
SpecConnFair == SpecConn /\ WF_vars(HandshakeTimeout) /\ WF_vars(JoinTimeout)

\* ------------------------------------------------------------------------
\* Properties of the engine
\* ------------------------------------------------------------------------

\* No two handlers in flight locked the same path, and each one's path is
\* in the lock set.
OneHandlerPerPath ==
    /\ \A j, k \in 1..Len(tasks) : j # k => tasks[j].path # tasks[k].path
    /\ \A k \in 1..Len(tasks) : tasks[k].path \in syncLock

\* The step that takes an event off a queue while the path its handler
\* locks is in the lock set changes nothing else: not the index, the
\* caches, the status, the handlers in flight, the files or the remote.
DroppedWhenLocked ==
    /\ (watchQ # <<>> /\ watchQ' = Tail(watchQ) /\ Head(watchQ).path \in syncLock)
           => UNCHANGED << engVars, fs, srv, srvJoined, notifQ >>
    /\ (notifQ # <<>> /\ notifQ' = Tail(notifQ) /\ NotifPath(Head(notifQ)) \in syncLock)
           => UNCHANGED << engVars, fs, srv, srvJoined, watchQ >>

AtRest == tasks = <<>> /\ watchQ = <<>> /\ notifQ = <<>>

\* Every identity of fileTree has exactly one path key that maps back to
\* its record, every record of fileTreeByPath is in fileTree, and no two
\* identities have the same path.
Bijection ==
    /\ \A id \in SeqRange(fileTree) :
           Cardinality({ path \in DOMAIN fileTreeByPath : fileTreeByPath[path] = id }) = 1
    /\ \A path \in DOMAIN fileTreeByPath : fileTreeByPath[path] \in SeqRange(fileTree)
    /\ \A a, b \in SeqRange(fileTree) : a # b => ent[a].path # ent[b].path

\* The user did nothing but delete files, the collaborators did nothing
\* but create, rename, move and remove entities.
OnlyTreeChanges ==
    \A k \in 1..Len(envLog) : envLog[k] \in { "create", "rename", "move", "remove", "delete" }

\* C2: once the index is built, after any sequence of remote created,
\* renamed, moved and removed notifications and local deletes, the id map
\* and the path map are in bijection whenever the engine is at rest.
C2_Bijection == (AtRest /\ OnlyTreeChanges) => Bijection


\* Equality of contents when an absent file counts as the empty content.
SameWhenAbsentIsEmpty(a, b) ==
    (IF a = NoBytes THEN <<>> ELSE a) = (IF b = NoBytes THEN <<>> ELSE b)

\* C3: handleRemoteFileChanged issues a write only if the bytes it arrived
\* at by applying the inbound ops differ from the local bytes it read, an
\* absent local file counting as empty content; an update with no ops or
\* with an empty op list never gets as far as the write.
C3_WriteOnlyOnDifference ==
    \A k \in 1..Len(tasks) :
        (tasks[k].kind = "remoteChanged" /\ tasks[k].pc = "writeFile") =>
            /\ ~SameWhenAbsentIsEmpty(tasks[k].bytes, tasks[k].out)
            /\ tasks[k].hasOp /\ tasks[k].ops # <<>>


\* The tracked document of the initial project and its local file.
DocId == "e1"
DocPath == << Sep, "a.tex" >>

\* All that happened around the engine is that the user saved the tracked
\* document, once or more, and no request to the remote failed.
OnlyDocSaves ==
    /\ envLog # <<>>
    /\ \A k \in 1..Len(envLog) : envLog[k] = "write"
    /\ \A path \in UserPaths : FsHas(path) => path = DocPath
    /\ ~failed

\* C6: when the local file of a tracked document was modified and nothing
\* else happens, the engine comes to rest only with the final local content
\* submitted to the remote: the cache, the debounce window and a held lock
\* do not keep a modification back for good.
C6_FinalContentSubmitted ==
    (AtRest /\ OnlyDocSaves /\ ByPath(DocPath) = DocId /\ FsIsFile(DocPath)
        /\ SrvIs(srv, DocId, "doc"))
    => srv[DocId].content = Decode(fs[DocPath])


\* ------------------------------------------------------------------------
\* Properties of pullAll
\* ------------------------------------------------------------------------

\* The second call of pullAll, made after a first call that went through
\* to its end with every request answered and no conflict skipped.
SecondPull ==
    pull.call = 2 /\ pull.before = "ok" /\ pull.beforeSkipped = 0 /\ ~failed

\* C5: when pullAll is called twice in a row with no change in between,
\* the second call writes no local file and counts no conflict, whatever
\* resolutions were chosen in the first call; stated here for the
\* resolutions useRemote and useLocal, which leave no conflict open.
C5_SecondPullQuiet ==
    SecondPull =>
        /\ pull.conflictCount = 0 /\ pull.downloadedCount = 0
        /\ pull.pc # "write" /\ ~pull.wrote

\* C7: for an entry whose non-empty local bytes differ from the non-empty
\* remote bytes and whose resolution is useLocal, pullAll issues exactly
\* one upload (applyOtUpdate or uploadFile), writes no local file, and
\* leaves baseContent and fileCache of the path at the local bytes.
C7_UseLocalUploadsOnce ==
    (pull.pc = "entry" /\ pull.resolution = "useLocal" /\ ~failed
        /\ pull.localContent # <<>> /\ pull.remoteContent # <<>>)
    => /\ pull.sent = 1 /\ ~pull.wrote
       /\ Has(baseContent, pull.path) /\ baseContent[pull.path] = pull.localContent
       /\ Has(fileCache, pull.path)
       /\ fileCache[pull.path].hash = hashContent(pull.localContent)

\* ------------------------------------------------------------------------
\* Properties of the connection
\* ------------------------------------------------------------------------

C10_ReconnectKeepsHandlers ==
    /\ [][(conn'.reconnects # conn.reconnects /\ conn.connected)
            => (conn'.socket = conn.socket /\ conn'.socks = conn.socks
                /\ conn'.handlers = conn.handlers)]_vars
    /\ []((conn.reconnects > 0 /\ conn.heardOn = conn.socket)
            => \A i \in DOMAIN conn.handlers : conn.handlers[i] \in conn.heard)

\* ------------------------------------------------------------------------
\* Further properties of the engine
\* ------------------------------------------------------------------------

\* C11: the sync lock holds exactly the paths of the handlers in flight:
\* a handler that ended, on success, on a swallowed not-found race or on a
\* failure, has released its path, and with no handler in flight the lock
\* set is empty.
C11_LockReleased ==
    /\ syncLock = { tasks[k].path : k \in 1..Len(tasks) }
    /\ tasks = <<>> => syncLock = {}

\* Handlers have run, a request of one of them failed, and none is left.
C11_Witness == tasks = <<>> /\ syncLock = {} /\ failed /\ Len(envLog) = MaxEnvOps

\* ------------------------------------------------------------------------
\* A text file created in the workspace
\* ------------------------------------------------------------------------

\* The engine is connected; the user has just created the text file /b.tex
\* with the content 'a', and the watcher reports the creation and then a
\* modification of the file.  Nobody else acts.
SpecCreate ==
    /\ fileTree = buildFileTree(InitProject).tree
    /\ ent = buildFileTree(InitProject).heap
    /\ fileTreeByPath = buildFileTree(InitProject).byPath
    /\ fileCache = EmptyMap /\ baseContent = EmptyMap
    /\ syncLock = {} /\ joinedDocs = {}
    /\ status = "idle" /\ engSocket \in BOOLEAN /\ tasks = <<>>
    /\ now = 0 /\ srv = InitSrv /\ srvJoined = {}
    /\ fs = Put(Put(Put(EmptyMap, << Sep, "d" >>, DirEntry),
                    << Sep, "a.tex" >>, << 97 >>),
                << Sep, "b.tex" >>, << 97 >>)
    /\ notifQ = <<>>
    /\ watchQ = << WatchEvent("create", << Sep, "b.tex" >>),
                   WatchEvent("change", << Sep, "b.tex" >>) >>
    /\ budget = 0
    /\ envLog = <<>> /\ failed = FALSE
    /\ otOld = <<>> /\ otNew = <<>> /\ otOps = <<>> /\ otOut = <<>> /\ otPc = "idle"
    /\ pull = PullLocals
    /\ conn = [ConnLocals EXCEPT !.cpc = "done", !.watcher = TRUE]
    /\ [][\/ DeliverWatch \/ LCreateStat \/ LCreateReadFile \/ LCreateSend
                     \/ LChangeReadFile \/ DeliverNotif \/ RCreatedFetch
                     \/ RCreatedWrite \/ RCreatedJoin \/ Tick]_vars

\* The remote documents named b.tex.
CreatedDocs == { id \in DOMAIN srv : srv[id].live /\ srv[id].name = "b.tex" }

\* C12: once handleLocalFileCreate has created the remote document for the
\* new text file and the modify event for the path was handled, with no
\* request failing, the remote document holds the file's content 'a'.
C12_CreatedContentArrives ==
    (AtRest /\ ~failed /\ CreatedDocs # {})
        => \A id \in CreatedDocs : srv[id].content = << 97 >>


C14_RemoteDeletedKept ==
    (pull.pc = "idle" /\ pull.ended = "ok")
        => \A path \in DOMAIN baseContent :
               (\A k \in 1..Len(fileTree) : FsKey(ent[fileTree[k]].path) # path)
                   => /\ path \in pull.asked
                      /\ Has(fs, path)
                      /\ \A id \in DOMAIN srv :
                             srv[id].live => << Sep, srv[id].name >> # path


C18_NoWatcherAfterFailure ==
    /\ conn.cpc \in { "failed", "notAuthenticated" } => ~conn.watcher
    /\ conn.cpc = "notAuthenticated"
           => (conn.socks = <<>> /\ conn.socket = 0 /\ ~engSocket)

C18_Witness == conn.cpc = "notAuthenticated" /\ status = "syncing" /\ ~conn.watcher

\* The HTTP fallback of connect() has failed.
C18_WitnessFallback == conn.cpc = "failed" /\ status = "error" /\ ~conn.watcher


\* ------------------------------------------------------------------------
\* disconnect() with handlers in flight
\* ------------------------------------------------------------------------

\* A connected engine, its document joined for watching or not, the local
\* document edited, and the watcher about to report that change and a new
\* text file.
SpecStop ==
    /\ fileTree = buildFileTree(InitProject).tree
    /\ ent = buildFileTree(InitProject).heap
    /\ fileTreeByPath = buildFileTree(InitProject).byPath
    /\ fileCache = EmptyMap /\ baseContent = EmptyMap
    /\ syncLock = {}
    /\ \E joined \in { {}, { "e1" } } : joinedDocs = joined /\ srvJoined = joined
    /\ status = "idle" /\ engSocket = TRUE /\ tasks = <<>>
    /\ now = 0 /\ srv = InitSrv
    /\ fs = Put(Put(Put(EmptyMap, << Sep, "d" >>, DirEntry),
                    << Sep, "a.tex" >>, << 98 >>),
                << Sep, "b.tex" >>, << 97 >>)
    /\ notifQ = <<>>
    /\ watchQ = << WatchEvent("change", << Sep, "a.tex" >>),
                   WatchEvent("create", << Sep, "b.tex" >>) >>
    /\ budget = 0
    /\ envLog = <<>> /\ failed = FALSE
    /\ otOld = <<>> /\ otNew = <<>> /\ otOps = <<>> /\ otOut = <<>> /\ otPc = "idle"
    /\ pull = PullLocals
    /\ conn = [ConnLocals EXCEPT !.cpc = "done", !.watcher = TRUE]
    /\ [][\/ DeliverWatch \/ LChangeReadFile \/ LChangeJoinDoc \/ LChangeApplyOt
                   \/ LChangeUpload \/ LCreateStat \/ LCreateReadFile \/ LCreateSend
                   \/ DeliverNotif \/ RCreatedFetch \/ RCreatedWrite \/ RCreatedJoin
                   \/ RChangedRead \/ EngineDisconnect \/ Tick]_vars

\* disconnect() was called on the connected engine.
Stopped == ~conn.watcher /\ ~engSocket

\* C15: once the engine was disconnected no document is in joinedDocs.
C15_JoinedDocsCleared == Stopped => joinedDocs = {}

\* C19: once disconnect() was called, no handler starts, no handler in
\* flight changes the remote project, and a handler in flight that ends,
\* ends with status error.
C19_NothingSentAfterDisconnect ==
    [][Stopped => /\ Len(tasks') <= Len(tasks)
                  /\ srv' = srv
                  /\ Len(tasks') < Len(tasks) => status' = "error"]_vars


\* C16: when a request of a handler fails (the first failure of a run) and
\* the handler ends with it, the status is error and the lock set is that
\* of the handlers still in flight.
C16_FailureSetsError ==
    [][(~failed /\ failed' /\ Len(tasks') < Len(tasks))
           => /\ status' = "error"
              /\ syncLock' = { tasks'[k].path : k \in 1..Len(tasks') }]_vars


\* C20: a step in which a local handler ends and puts bytes C into
\* baseContent for its path is no step in which its request failed, and
\* after it the remote entity the handler pushed to (for a create: a live
\* entity of that name) holds C, as text for a document.
C20_BaseContentSynchronised ==
    [][\A k \in 1..Len(tasks) :
           LET t == tasks[k]
               p == t.path
               held(id) == /\ srv'[id].live
                           /\ srv'[id].content = IF srv'[id].type = "doc"
                                                 THEN Decode(baseContent'[p])
                                                 ELSE baseContent'[p]
           IN  (/\ t.kind \in { "localChange", "localCreate" }
                /\ tasks' = RemoveAt(tasks, k)
                /\ p \in DOMAIN baseContent'
                /\ p \notin DOMAIN baseContent \/ baseContent'[p] # baseContent[p])
               => /\ failed' = failed
                  /\ \E id \in DOMAIN srv' :
                         /\ held(id)
                         /\ IF t.kind = "localChange" /\ t.pc # "uploadFile"
                            THEN id = t.id ELSE srv'[id].name = p[Len(p)]]_vars


C22_NoEcho ==
    (\A i \in DOMAIN envLog : envLog[i] \notin { "write", "delete" })
        => \A k \in 1..Len(tasks) :
               tasks[k].kind \in { "localChange", "localCreate", "localDelete" }
                   => tasks[k].pc \notin { "addDoc", "addFolder", "uploadFile",
                                           "deleteEntity", "applyOtUpdate" }


\* C23: a renamed or moved notification for an indexed entity locks the
\* path the entry has before the mutation and its handler releases that
\* same path at its end; when that path is locked already, the notification
\* changes nothing in the index, the caches, the lock set or the workspace.
C23_RenameLocksOldPath ==
    [][/\ (notifQ # <<>> /\ notifQ' = Tail(notifQ)
              /\ Head(notifQ).kind \in { "renamed", "moved" }
              /\ InTree(Head(notifQ).id)
              /\ (Head(notifQ).kind = "moved" => InTree(Head(notifQ).parentId)))
           => LET oldPath == ent[Head(notifQ).id].path
              IN  IF oldPath \in syncLock
                  THEN UNCHANGED << fileTree, ent, fileTreeByPath, fileCache, baseContent,
                                    syncLock, tasks, fs >>
                  ELSE /\ syncLock' = syncLock \cup { oldPath }
                       /\ Len(tasks') = Len(tasks) + 1
                       /\ tasks'[Len(tasks')].path = oldPath
                       /\ tasks'[Len(tasks')].kind \in { "remoteRenamed", "remoteMoved" }
       /\ \A k \in 1..Len(tasks) :
              (tasks[k].kind \in { "remoteRenamed", "remoteMoved" }
                  /\ tasks' = RemoveAt(tasks, k))
              => (tasks[k].path \in syncLock /\ syncLock' = syncLock \ { tasks[k].path })]_vars

\* A rename or move handler in flight holds the lock of the old path while
\* the entry already has the new one.
C23_Witness ==
    \E k \in 1..Len(tasks) :
        /\ tasks[k].kind \in { "remoteRenamed", "remoteMoved" }
        /\ tasks[k].path \in syncLock
        /\ ent[tasks[k].id].path = tasks[k].newPath
        /\ tasks[k].newPath # tasks[k].path
        /\ tasks[k].newPath \notin syncLock

\* A renamed or moved notification is next while its entity's path is locked.
C23_WitnessSkipped ==
    /\ notifQ # <<>> /\ Head(notifQ).kind \in { "renamed", "moved" }
    /\ InTree(Head(notifQ).id) /\ ent[Head(notifQ).id].path \in syncLock


\* C24: every index entry's path follows from its parent entry: the root
\* folder has the path '/', and an entry whose parent is in the index has
\* the parent's path + name (+ '/' for a folder).
C24_PathRule ==
    \A k \in 1..Len(fileTree) :
        LET e == ent[fileTree[k]]
        IN  IF e.id = ProjectRootId THEN e.path = << Sep >>
            ELSE InTree(e.parentId)
                     => e.path = ChildPath(ent[e.parentId].path, e.name, e.type)


\* ------------------------------------------------------------------------
\* A notification delivered twice
\* ------------------------------------------------------------------------

\* The socket hands the engine the notification of the one remote change a
\* second time.
Again ==
    /\ budget = MaxEnvOps - 1 /\ Len(envLog) = 1
    /\ Len(notifQ) = 1 /\ tasks = <<>>
    /\ Head(notifQ).kind \in { "created", "renamed", "moved", "removed" }
    /\ notifQ' = notifQ \o notifQ
    /\ budget' = 0
    /\ envLog' = Append(envLog, "again")
    /\ UNCHANGED << engVars, now, fs, srv, srvJoined, watchQ, asideVars, failed >>

SpecTwice ==
    Init /\ [][
        \/ CollabCreate \/ CollabRename \/ CollabMove \/ CollabRemove \/ Again
        \/ DeliverNotif \/ RCreatedMkdir \/ RCreatedFetch \/ RCreatedWrite \/ RCreatedJoin
        \/ RRenameFs \/ RRemovedLeave \/ RRemovedFs
    ]_vars

\* C25: when the first of two equal notifications has been handled and
\* the second is delivered, the id map and the path map stay as they are,
\* and so they do when the handler of the second ends.
C25_TwiceAsOnce ==
    [][(Len(envLog) = 2 /\ envLog[2] = "again"
           /\ \/ Len(notifQ) = 1 /\ notifQ' = <<>> /\ tasks = <<>>
              \/ notifQ = <<>> /\ Len(tasks) = 1 /\ tasks' = <<>>)
          => /\ fileTree' = fileTree /\ fileTreeByPath' = fileTreeByPath
             /\ \A k \in 1..Len(fileTree) : ent'[fileTree[k]] = ent[fileTree[k]]]_vars


\* C26: a notification naming an identity the index lacks (the entity of a
\* renamed, removed, moved or changed one, the new parent of a moved one,
\* the parent of a created one) is dropped: the index, baseContent,
\* fileCache, the lock set and the workspace stay as they are and no handler
\* starts.
C26_AbsentDropped ==
    [][(notifQ # <<>> /\ notifQ' = Tail(notifQ)
           /\ LET n == Head(notifQ)
              IN  \/ n.kind \in { "renamed", "removed", "moved", "changed" } /\ ~InTree(n.id)
                  \/ n.kind \in { "moved", "created" } /\ ~InTree(n.parentId))
          => UNCHANGED << fileTree, ent, fileTreeByPath, baseContent, fileCache,
                          syncLock, tasks, fs >>]_vars


\* A created notification whose parent folder the index lacks is next.
C26_CreatedOrphanNext ==
    /\ notifQ # <<>> /\ Head(notifQ).kind = "created" /\ ~InTree(Head(notifQ).parentId)


\* C27: when handleLocalFileChange or handleLocalFileCreate finds the file
\* gone at stat or readFile, nothing is sent, the lock is released and the
\* status is the one from before the handler.  Stated for the behaviours in
\* which the user saved a file and deleted it again and the handlers sent
\* nothing and met no failure: once they have ended the status is idle, as
\* at the start, and no path is locked.
C27_NotFoundSwallowed ==
    (/\ envLog = << "write", "delete" >> /\ ~failed /\ srv = InitSrv
     /\ tasks = <<>> /\ watchQ = <<>> /\ notifQ = <<>>)
        => status = "idle" /\ syncLock = {}


\* C28: handleLocalFileDelete issues one remote delete; when it succeeded
\* the entry is gone from both index maps and its path from baseContent and
\* fileCache, and when it failed (the call threw or gave an error result)
\* the index and the caches are as before and the status is error.
C28_DeleteThenPurge ==
    [][\A k \in 1..Len(tasks) :
           (tasks[k].kind = "localDelete" /\ tasks[k].pc = "deleteEntity"
               /\ tasks' = RemoveAt(tasks, k))
              => IF srv' # srv
                 THEN /\ srv' = SrvRemove(srv, tasks[k].id)
                      /\ tasks[k].id \notin SeqRange(fileTree') /\ ~Has(fileTreeByPath', tasks[k].path)
                      /\ ~Has(baseContent', tasks[k].path) /\ ~Has(fileCache', tasks[k].path)
                 ELSE /\ UNCHANGED << fileTree, ent, fileTreeByPath, baseContent, fileCache >>
                      /\ status' = "error"]_vars


\* C29: when the handler of a removed notification ends, the entity is in
\* neither index map, its path has no baseContent and no fileCache entry
\* and its identity is not in joinedDocs, whether the local path still
\* existed or not.
C29_RemovedPurged ==
    [][\A k \in 1..Len(tasks) :
           (tasks[k].kind = "remoteRemoved" /\ tasks' = RemoveAt(tasks, k))
              => /\ tasks[k].id \notin SeqRange(fileTree')
                 /\ ~Has(fileTreeByPath', tasks[k].path)
                 /\ ~Has(baseContent', tasks[k].path)
                 /\ ~Has(fileCache', tasks[k].path)
                 /\ tasks[k].id \notin joinedDocs']_vars


\* C30: when handleRemoteFileRenamed, having moved the index entry to the
\* new path, ends, the baseContent and fileCache entries the old path had
\* are under the new path with the same values and the old path has none,
\* also when the rename in the workspace failed.
C30_CachesFollowRename ==
    [][\A k \in 1..Len(tasks) :
           (tasks[k].kind = "remoteRenamed" /\ tasks' = RemoveAt(tasks, k)
               /\ tasks[k].newPath # tasks[k].path)
              => LET old == tasks[k].path
                     new == tasks[k].newPath
                 IN  /\ ~Has(baseContent', old) /\ ~Has(fileCache', old)
                     /\ Has(baseContent, old)
                            => Has(baseContent', new) /\ baseContent'[new] = baseContent[old]
                     /\ Has(fileCache, old)
                            => Has(fileCache', new) /\ fileCache'[new] = fileCache[old]]_vars


\* ------------------------------------------------------------------------
\* The promisified emit
\* ------------------------------------------------------------------------

\* this.emit(event, ...): a timer of EMIT_TIMEOUT is set, the event is
\* emitted with a callback, and the caller awaits the race of the two.
\* 'joinProject' is emitted under v1 only.
Emit ==
    /\ conn.epc # "pending"
    /\ conn.ecount < MaxEmits
    /\ now + EMIT_TIMEOUT <= MaxEmits * EMIT_TIMEOUT
    /\ \E event \in { "joinProject", "joinDoc", "leaveDoc", "applyOtUpdate",
                      "clientTracking.getConnectedUsers",
                      "clientTracking.updatePosition" } :
           /\ event = "joinProject" => conn.scheme = "v1"
           /\ conn' = [conn EXCEPT !.epc = "pending", !.eevent = event, !.eat = now,
                                   !.etimer = TRUE, !.ewait = TRUE, !.ecount = @ + 1]
    /\ UNCHANGED << fileTree, ent, fileTreeByPath, status, engSocket, connFrame >>

\* The server calls the callback, with an error or with data: the race is
\* settled by it unless the timer was first.
EmitAck ==
    /\ conn.ewait
    /\ \E err \in BOOLEAN :
           conn' = [conn EXCEPT !.ewait = FALSE,
                                !.epc = IF @ # "pending" THEN @
                                        ELSE IF err THEN "rejected" ELSE "resolved"]
    /\ UNCHANGED << fileTree, ent, fileTreeByPath, status, engSocket, connFrame >>

\* A timer whose rejection is not part of what the caller awaits.
EmitTimeoutUnraced ==
    /\ conn.etimer
    /\ now - conn.eat >= EMIT_TIMEOUT
    /\ conn' = [conn EXCEPT !.etimer = FALSE]
    /\ UNCHANGED << fileTree, ent, fileTreeByPath, status, engSocket, connFrame >>

\* The timer fires: 'Socket emit timeout' settles the race unless the
\* callback was first.  The timer is never cleared.
EmitTimeout ==
    /\ conn.etimer
    /\ now - conn.eat >= EMIT_TIMEOUT
    /\ conn' = [conn EXCEPT !.etimer = FALSE,
                            !.epc = IF @ = "pending" THEN "timeout" ELSE @]
    /\ UNCHANGED << fileTree, ent, fileTreeByPath, status, engSocket, connFrame >>

\* A second passes.
EmitTick ==
    /\ now < MaxEmits * EMIT_TIMEOUT
    /\ now' = now + 1000
    /\ UNCHANGED << engVars, fs, srv, srvJoined, notifQ, watchQ, budget, asideVars, histVars >>

\* A connected SocketIOAPI under either scheme, the calls made through its
\* emit, and time; timers set with setTimeout do fire.
SpecEmit ==
    /\ fileTree = buildFileTree(InitProject).tree
    /\ ent = buildFileTree(InitProject).heap
    /\ fileTreeByPath = buildFileTree(InitProject).byPath
    /\ fileCache = EmptyMap /\ baseContent = EmptyMap
    /\ syncLock = {} /\ joinedDocs = {}
    /\ status = "idle" /\ engSocket = TRUE /\ tasks = <<>>
    /\ now = 0 /\ srv = InitSrv /\ srvJoined = {}
    /\ fs = EmptyMap /\ notifQ = <<>> /\ watchQ = <<>>
    /\ budget = 0 /\ envLog = <<>> /\ failed = FALSE
    /\ otOld = <<>> /\ otNew = <<>> /\ otOps = <<>> /\ otOut = <<>> /\ otPc = "idle"
    /\ pull = PullLocals
    /\ \E scheme \in { "v1", "v2" } :
           conn = [ConnLocals EXCEPT !.cpc = "done", !.watcher = TRUE,
                                     !.scheme = scheme, !.connected = TRUE]
    /\ [][Emit \/ EmitAck \/ EmitTimeout \/ EmitTick]_vars
    /\ WF_vars(EmitTick) /\ WF_vars(EmitTimeout)

\* C31: every call through the promisified emit settles, under either
\* scheme: it resolves or rejects with the server's answer or rejects with
\* the timeout, whichever comes first; the timeout comes no earlier than
\* EMIT_TIMEOUT after the call, and a call never stays pending.
C31_EmitSettles ==
    /\ [][(conn.epc = "pending" /\ conn'.epc = "timeout")
              => now - conn.eat >= EMIT_TIMEOUT]_vars
    /\ [][(conn.epc \in { "resolved", "rejected", "timeout" } /\ conn'.epc # conn.epc)
              => conn'.epc = "pending"]_vars
    /\ [](conn.epc = "pending" => <>(conn.epc \in { "resolved", "rejected", "timeout" }))

\* Under v2 a joinDoc the server never answered was rejected by the timer.
C31_Witness ==
    /\ conn.scheme = "v2" /\ conn.eevent = "joinDoc"
    /\ conn.epc = "timeout" /\ conn.ewait


\* C32: once handleLocalFileCreate has created the remote document for
\* the new local file /b.tex with content 'a', and no collaborator acts,
\* the local file keeps that content: no handler, the one of the created
\* notification for the engine's own create included, overwrites it.
C32_CreatedFileKept ==
    CreatedDocs # {} => (FsIsFile(<< Sep, "b.tex" >>) /\ fs[<< Sep, "b.tex" >>] = << 97 >>)


\* C33: no two handlers are in flight for the same entity: while a rename
\* or move handler for an entity waits for the local rename, no changed,
\* removed, renamed or moved handler for that entity and no local handler
\* for the entity's new path is in flight.
C33_OneHandlerPerEntity ==
    \A k \in 1..Len(tasks) :
        tasks[k].kind \in { "remoteRenamed", "remoteMoved" }
            => \A j \in 1..Len(tasks) :
                   j # k =>
                       /\ ~(/\ tasks[j].kind \in { "remoteChanged", "remoteRemoved",
                                                   "remoteRenamed", "remoteMoved" }
                            /\ tasks[j].id = tasks[k].id)
                       /\ ~(/\ tasks[j].kind \in { "localChange", "localCreate", "localDelete" }
                            /\ FsKey(tasks[j].path) = FsKey(tasks[k].newPath))


\* ------------------------------------------------------------------------
\* pullAll next to a content-changed handler
\* ------------------------------------------------------------------------

\* A connected engine with a socket whose document was joined for watching
\* (joinAllDocsForWatching), a project that also has the hidden folder .h,
\* the project's files in the workspace, and one edit of a collaborator to
\* come: pullAll runs while the notification of that edit is handled.
SpecPullRace ==
    /\ LET project ==
               [rootFolder |->
                   << Folder(ProjectRootId, "rootFolder", << Leaf("e1", "a.tex") >>,
                             << Leaf("e2", "p.png") >>,
                             << Folder("f1", "d", <<>>, <<>>, <<>>),
                                Folder("f2", ".h", <<>>, <<>>, <<>>) >>) >>]
       IN  /\ fileTree = buildFileTree(project).tree
           /\ ent = buildFileTree(project).heap
           /\ fileTreeByPath = buildFileTree(project).byPath
    /\ fileCache = EmptyMap /\ baseContent = EmptyMap
    /\ syncLock = {} /\ joinedDocs = { "e1" } /\ srvJoined = { "e1" }
    /\ status = "idle" /\ engSocket = TRUE /\ tasks = <<>>
    /\ now = 0
    /\ \E b \in { << 97 >>, << 98 >> } :
           fs = Put(Put(Put(EmptyMap, << Sep, "d" >>, DirEntry),
                        << Sep, "a.tex" >>, << 97 >>),
                    << Sep, "p.png" >>, b)
    /\ srv = SrvCreate(SrvCreate(InitSrv, "e2", "p.png", ProjectRootId, << 97 >>),
                       "f2", ".h", ProjectRootId, <<>>)
    /\ notifQ = <<>> /\ watchQ = <<>> /\ budget = 1
    /\ envLog = <<>> /\ failed = FALSE
    /\ otOld = <<>> /\ otNew = <<>> /\ otOps = <<>> /\ otOut = <<>> /\ otPc = "idle"
    /\ pull = PullLocals
    /\ conn = [ConnLocals EXCEPT !.cpc = "done", !.watcher = TRUE]
    /\ [][\/ PullStart \/ PullFinish \/ PullPass \/ PullFetch \/ PullCompare \/ PullAsk
          \/ PullPushRead \/ PullPushJoin \/ PullPushApply \/ PullPushUpload
          \/ PullDownload \/ PullWrite
          \/ CollabEdit \/ DeliverNotif \/ RChangedRead \/ RChangedWrite]_vars

\* C34: while pullAll is at a path, from the fetch of its remote content
\* to the write or the cache update, no handler changes that path's local
\* file, baseContent or fileCache, and pullAll writes no path whose lock a
\* handler holds.
C34_PullAlone ==
    [][/\ (pull.pc \notin { "idle", "entry" } /\ pull' = pull)
           => /\ (FsHas(pull.path) <=> Has(fs', FsKey(pull.path)))
              /\ FsHas(pull.path) => fs'[FsKey(pull.path)] = fs[FsKey(pull.path)]
              /\ (Has(baseContent, pull.path) <=> Has(baseContent', pull.path))
              /\ Has(baseContent, pull.path) => baseContent'[pull.path] = baseContent[pull.path]
              /\ (Has(fileCache, pull.path) <=> Has(fileCache', pull.path))
              /\ Has(fileCache, pull.path) => fileCache'[pull.path] = fileCache[pull.path]
       /\ (pull.pc = "write" /\ fs' # fs) => pull.path \notin syncLock]_vars

\* C35: while the socket is connected, the server has the engine
\* subscribed to every document in joinedDocs, also after a pass of
\* pullAll.
C35_JoinedMeansSubscribed == engSocket => joinedDocs \subseteq srvJoined


\* C36: whenever no handler is in flight, no pullAll is running and no
\* connect() is in progress, the status is idle, error or disconnected.
C36_StatusAtRest ==
    (tasks = <<>> /\ pull.pc = "idle" /\ conn.cpc \in { "new", "done", "notAuthenticated", "failed" })
        => status \in { "idle", "error", "disconnected" }


\* C37: once disconnect() has set the status to disconnected it stays
\* disconnected (no connect follows here): a handler that was in flight
\* does not change it when it goes on or ends.
C37_StaysDisconnected ==
    [][(Stopped /\ status = "disconnected") => status' = "disconnected"]_vars


\* C38: no remote handler and no pass of pullAll creates, writes or
\* deletes a local path that the ignore predicate matches, folders
\* included.  (Nobody but the engine touches the workspace here.)
C38_IgnoredUntouched ==
    [][\A key \in DOMAIN fs \cup DOMAIN fs' :
           (key \notin DOMAIN fs \/ key \notin DOMAIN fs' \/ fs[key] # fs'[key])
               => ~shouldIgnore(key)]_vars


\* ------------------------------------------------------------------------
\* The index built from a flat list of entities
\* ------------------------------------------------------------------------

\* At most this many entities in the list of getProjectEntities.
MaxEntities == 3

\* connect() on its HTTP fallback, about to hear from getProjectEntities,
\* whose list has up to MaxEntities entities with distinct paths.
SpecEntities ==
    /\ fileTree = <<>> /\ ent = EmptyMap /\ fileTreeByPath = EmptyMap
    /\ fileCache = EmptyMap /\ baseContent = EmptyMap
    /\ syncLock = {} /\ joinedDocs = {}
    /\ status = "syncing" /\ engSocket = FALSE /\ tasks = <<>>
    /\ now = 0 /\ fs = EmptyMap /\ srv = EmptyMap /\ srvJoined = {}
    /\ notifQ = <<>> /\ watchQ = <<>> /\ budget = 0
    /\ envLog = <<>> /\ failed = FALSE
    /\ otOld = <<>> /\ otNew = <<>> /\ otOps = <<>> /\ otOut = <<>> /\ otPc = "idle"
    /\ pull = PullLocals
    /\ LET pool == { [path |-> << "a.tex" >>, type |-> "doc"],
                     [path |-> << "d" >>, type |-> "folder"],
                     [path |-> << "p.png" >>, type |-> "file"],
                     [path |-> << "introduction-part1.tex" >>, type |-> "doc"],
                     [path |-> << "introduction-part2.tex" >>, type |-> "doc"] }
       IN  \E n \in 0..MaxEntities : \E list \in [1..n -> pool] :
               /\ \A j, k \in 1..n : j # k => list[j] # list[k]
               /\ conn = [ConnLocals EXCEPT !.cpc = "entities", !.entities = list]
    /\ [][FallbackEntities]_vars

\* The path under which the index keeps a listed entity.
C39_IndexPath(e) ==
    IF e.type = "folder" THEN << Sep >> \o e.path \o << Sep >> ELSE << Sep >> \o e.path

\* C39: after the index was built from a list of entities with distinct
\* paths, it has as many identities as paths, one of each per listed
\* entity, and every listed entity is found by its path and by an
\* identity of its own.
C39_DistinctIdentities ==
    (conn.cpc = "done" /\ conn.project # <<>>) =>
        /\ Len(fileTree) = Cardinality(DOMAIN fileTreeByPath)
        /\ Len(fileTree) = Len(conn.entities)
        /\ \A k \in 1..Len(conn.entities) :
               /\ Has(fileTreeByPath, C39_IndexPath(conn.entities[k]))
               /\ \E id \in SeqRange(fileTree) :
                      ent[id].path = C39_IndexPath(conn.entities[k])


\* C40: when connect() returns with status idle, this.project is set (so
\* that pullAll does not throw 'Not connected'), on the socket path and
\* on both paths of the HTTP fallback.
C40_IdleMeansProject ==
    [][(conn.cpc # "done" /\ conn'.cpc = "done" /\ status' = "idle")
           => conn'.project # <<>>]_vars

=============================================================================
